---- MODULE Spec2Model ----
(***************************************************************************)
(* Lol.Poten: the potential analyzer (src/src/utils/potentialAnalyzer.ts). *)
(*                                                                         *)
(* One request assembles a list of recent matches, then analyzePotential   *)
(* turns the optional rank entry and the match list into a                 *)
(* PotentialAnalysis.  The model keeps the inputs, the locals of the call  *)
(* that the claims speak about, and the returned record.                   *)
(*                                                                         *)
(* Numbers.  A JavaScript number is modelled as an exact fraction <<n, d>> *)
(* in lowest terms with d >= 0: d > 0 is a finite value, <<0, 0>> is NaN   *)
(* and <<1, 0>>, <<-1, 0>> are +Infinity and -Infinity.  Binary rounding   *)
(* of IEEE doubles is not modelled; Math.sqrt is resolved to 1/SqrtScale.  *)
(*                                                                         *)
(* Text.  A templated sentence is modelled by the name of its template;    *)
(* the interpolated digits (toFixed) are not part of the model.            *)
(***************************************************************************)
EXTENDS Integers, Sequences, FiniteSets, TLC

VARIABLES recentMatches, rankData, performanceMetrics, analysis, pc,
          apiKey, requestBody, upstream, call, inflight, settled, log,
          throttled, sample, computed

\* The analyzer's own state, and the state of one request in the route and
\* the data client.
analyzerVars == <<recentMatches, rankData, performanceMetrics, analysis, pc>>

clientVars ==
    <<apiKey, requestBody, upstream, call, inflight, settled, log, throttled>>

\* The arguments one pure function of the program is applied to, and what it
\* returned.
calcVars == <<sample, computed>>

vars == <<analyzerVars, clientVars, calcVars>>

\* ------------------------------------------------------------------ bounds

\* Longest match list a request assembles (the route asks for 20).
MaxMatches == 5

\* Math.sqrt is resolved to steps of 1/SqrtScale.
SqrtScale == 100

\* Largest kill, death and assist count of a sampled participant.
MaxStat == 4

\* Longest list of match ids the upstream hands out (the route asks for 20).
MaxIds == 3

\* ----------------------------------------------------------------- numbers

Abs(i) == IF i < 0 THEN -i ELSE i

Sign(i) == IF i < 0 THEN -1 ELSE IF i > 0 THEN 1 ELSE 0

RECURSIVE GCD(_, _)
GCD(a, b) == IF b = 0 THEN a ELSE GCD(b, a % b)

\* The fraction n/d in lowest terms; d >= 0.
Rat(n, d) ==
    IF d = 0 THEN <<Sign(n), 0>>
    ELSE LET g == GCD(Abs(n), d) IN <<n \div g, d \div g>>

Num(i) == <<i, 1>>

NaN == <<0, 0>>

IsNaN(a) == a = NaN

IsFinite(a) == a[2] > 0

\* a is a whole number.
IsInteger(a) == a[2] = 1

Add(a, b) ==
    IF a[2] = 0 /\ b[2] = 0
    THEN (IF a = b THEN a ELSE NaN)
    ELSE Rat(a[1] * b[2] + b[1] * a[2], a[2] * b[2])

Neg(a) == <<-a[1], a[2]>>

Sub(a, b) == Add(a, Neg(b))

Mul(a, b) == Rat(a[1] * b[1], a[2] * b[2])

\* a / b as JavaScript divides: 0/0 is NaN, x/0 is an infinity.
Div(a, b) ==
    IF b[1] < 0 THEN Rat(-(a[1] * b[2]), a[2] * (-b[1]))
    ELSE Rat(a[1] * b[2], a[2] * b[1])

\* Every comparison with NaN is false.
Lt(a, b) == ~IsNaN(a) /\ ~IsNaN(b) /\ a[1] * b[2] < b[1] * a[2]

Gt(a, b) == Lt(b, a)

Ge(a, b) == ~IsNaN(a) /\ ~IsNaN(b) /\ ~Lt(a, b)

Le(a, b) == Ge(b, a)

\* Math.min and Math.max: NaN if either argument is NaN.
MathMin(a, b) == IF IsNaN(a) \/ IsNaN(b) THEN NaN ELSE IF Lt(b, a) THEN b ELSE a

MathMax(a, b) == IF IsNaN(a) \/ IsNaN(b) THEN NaN ELSE IF Gt(b, a) THEN b ELSE a

\* Math.round: the nearest integer, halves towards +Infinity.
MathRound(a) ==
    IF a[2] = 0 THEN a ELSE Num((2 * a[1] + a[2]) \div (2 * a[2]))

RECURSIVE SqrtSearch(_, _, _)
\* The largest m in lo..hi with m * m <= x (lo * lo <= x is given).
SqrtSearch(x, lo, hi) ==
    IF lo >= hi THEN lo
    ELSE LET mid == (lo + hi + 1) \div 2
         IN  IF mid * mid <= x THEN SqrtSearch(x, mid, hi)
             ELSE SqrtSearch(x, lo, mid - 1)

\* Math.sqrt of a finite a with 0 <= a < 25, to the step 1/SqrtScale.
MathSqrt(a) ==
    Rat(SqrtSearch((a[1] * SqrtScale * SqrtScale) \div a[2], 0, 5 * SqrtScale),
        SqrtScale)

RECURSIVE SumSeq(_)
\* values.reduce((sum, v) => sum + v, 0)
SumSeq(values) ==
    IF values = <<>> THEN Num(0)
    ELSE Add(values[1], SumSeq(Tail(values)))

\* [f(s[1]), ..., f(s[n])] as array.map builds it.
Map(f(_), s) == [i \in 1..Len(s) |-> f(s[i])]

\* ------------------------------------------------------------------ inputs

\* JavaScript's null / undefined.
Null == [null |-> TRUE]

\* The analysed player's puuid and some other player's.
summonerPuuid == "me"

OtherPuuid == "other"

\* One entry of match.info.participants.
Participant(puuid, win, kills, deaths, assists, minions, neutral, vision, damage, champion, position, dragons, barons, turrets) ==
    [puuid |-> puuid, win |-> win, kills |-> kills, deaths |-> deaths,
     assists |-> assists, totalMinionsKilled |-> minions,
     neutralMinionsKilled |-> neutral, visionScore |-> vision,
     totalDamageDealtToChampions |-> damage, championName |-> champion,
     teamPosition |-> position, dragonKills |-> dragons,
     baronKills |-> barons, turretKills |-> turrets]

Bystander ==
    Participant(OtherPuuid, TRUE, 4, 4, 4, 150, 0, 20, 9000, "Lux", "UTILITY",
                0, 0, 0)

MatchData(duration, participants) ==
    [info |-> [gameDuration |-> duration, participants |-> participants]]

\* A strong win: KDA 4.5, 11 CS/min, 3 vision/min, 600 damage/min.
StarGame ==
    MatchData(1200,
        <<Bystander,
          Participant(summonerPuuid, TRUE, 7, 2, 2, 200, 20, 60, 12000, "Ahri",
                      "MIDDLE", 1, 0, 2)>>)

\* A fair win of 30 minutes: KDA 2.25, 7 CS/min, 1.5 vision/min,
\* 600 damage/min.
FairGame ==
    MatchData(1800,
        <<Participant(summonerPuuid, TRUE, 5, 4, 4, 200, 10, 45, 18000, "Garen",
                      "TOP", 1, 0, 1),
          Bystander>>)

\* A poor loss: KDA 0.5, 3 CS/min, 1 vision/min, 200 damage/min.
PoorGame ==
    MatchData(1200,
        <<Participant(summonerPuuid, FALSE, 2, 8, 2, 60, 0, 20, 4000, "Teemo",
                      "JUNGLE", 0, 0, 0)>>)

\* A match the analysed player has no record in.
AbsentGame == MatchData(1500, <<Bystander>>)

\* The matches a request can be handed.
MatchInputs == {StarGame, FairGame, PoorGame, AbsentGame}

RankEntry(tier, division, lp, wins, losses) ==
    [queueType |-> "RANKED_SOLO_5x5", tier |-> tier, rank |-> division,
     leaguePoints |-> lp, wins |-> wins, losses |-> losses]

\* The rank entries a request can be handed; Null is "no rank data".
RankInputs ==
    {Null,
     RankEntry("IRON", "IV", 10, 3, 7),
     RankEntry("GOLD", "II", 40, 7, 3),
     RankEntry("CHALLENGER", "I", 900, 13, 7),
     RankEntry("UNRANKED", "", 0, 0, 0)}

\* ------------------------------------------------------- metrics aggregator

\* match.info.participants.find(p => p.puuid === puuid)
FindParticipant(match, puuid) ==
    LET ps == match.info.participants
        hits == {i \in 1..Len(ps) : ps[i].puuid = puuid}
    IN  IF hits = {} THEN Null
        ELSE ps[CHOOSE i \in hits : \A j \in hits : i <= j]

\* A slip: the deaths are not floored at 1.
DeathsUnguarded(deaths) == deaths

\* Math.max(deaths, 1)
DeathsOrOne(deaths) == IF deaths > 1 THEN deaths ELSE 1

\* The record calculatePerformanceMetrics' map builds from a found
\* participant and gameDurationMinutes.
PerformanceOf(participant, gameDurationMinutes) ==
    [win |-> participant.win,
     kills |-> participant.kills,
     deaths |-> participant.deaths,
     assists |-> participant.assists,
     kda |-> Div(Num(participant.kills + participant.assists),
                 Num(DeathsOrOne(participant.deaths))),
     cs |-> participant.totalMinionsKilled + participant.neutralMinionsKilled,
     csPerMinute |->
         Div(Num(participant.totalMinionsKilled
                 + participant.neutralMinionsKilled), gameDurationMinutes),
     visionScore |-> participant.visionScore,
     visionScorePerMinute |->
         Div(Num(participant.visionScore), gameDurationMinutes),
     damagePerMinute |->
         Div(Num(participant.totalDamageDealtToChampions), gameDurationMinutes),
     championName |-> participant.championName,
     teamPosition |-> participant.teamPosition,
     dragonKills |-> participant.dragonKills,
     baronKills |-> participant.baronKills,
     turretKills |-> participant.turretKills]

\* A slip: a match without the player's record is kept as a game of zeros.
PerformanceOrZero(participant, gameDuration) ==
    IF participant = Null
    THEN PerformanceOf(Participant("", FALSE, 0, 0, 0, 0, 0, 0, 0, "", "", 0, 0, 0),
                       Div(Num(gameDuration), Num(60)))
    ELSE PerformanceOf(participant, Div(Num(gameDuration), Num(60)))

\* if (!participant) return null, else the record.
PerformanceOrNull(participant, gameDuration) ==
    IF participant = Null THEN Null
    ELSE PerformanceOf(participant, Div(Num(gameDuration), Num(60)))

\* The callback of calculatePerformanceMetrics' map.
Performance(match, puuid) ==
    PerformanceOrNull(FindParticipant(match, puuid), match.info.gameDuration)

NotNull(x) == x /= Null

\* matches.map(...).filter(Boolean)
Performances(matches, puuid) ==
    LET perf(m) == Performance(m, puuid)
    IN  SelectSeq(Map(perf, matches), NotNull)

Kda(p) == p.kda

CsPerMinute(p) == p.csPerMinute

VisionPerMinute(p) == p.visionScorePerMinute

DamagePerMinute(p) == p.damagePerMinute

KillsOf(p) == Num(p.kills)

DeathsOf(p) == Num(p.deaths)

AssistsOf(p) == Num(p.assists)

\* dragonKills + baronKills + turretKills
ObjectivesOf(p) == Num(p.dragonKills + p.baronKills + p.turretKills)

\* dragonKills + baronKills
EpicMonstersOf(p) == Num(p.dragonKills + p.baronKills)

Won(p) == p.win

\* performances.filter(p => p.win).length
Wins(performances) == Len(SelectSeq(performances, Won))

\* values.reduce(sum) / values.length
Mean(values) == Div(SumSeq(values), Num(Len(values)))

getDefaultMetrics ==
    [recentWinRate |-> Num(50),
     avgKDA |-> Num(1),
     avgKills |-> Num(5),
     avgDeaths |-> Num(6),
     avgAssists |-> Num(8),
     avgCSPerMinute |-> Num(5),
     avgVisionScorePerMinute |-> Num(1),
     avgDamagePerMinute |-> Num(400),
     objectiveParticipation |-> Num(1),
     consistency |-> Num(50),
     gameImpact |-> Num(50),
     performances |-> <<>>]

SquaredDistance(v, mean) == Mul(Sub(v, mean), Sub(v, mean))

\* values.reduce((sum, val) => sum + Math.pow(val - mean, 2), 0) / length
VarianceAround(values, mean) ==
    LET sq(v) == SquaredDistance(v, mean) IN Mean(Map(sq, values))

\* Math.max(0, Math.min(100, 100 - Math.sqrt(variance) * 20)); a deviation
\* of 5 or more is clamped to 0 by Math.max.
ConsistencyOfVariance(variance) ==
    IF Ge(variance, Num(25)) THEN Num(0)
    ELSE MathMax(Num(0),
                 MathMin(Num(100),
                         Sub(Num(100), Mul(MathSqrt(variance), Num(20)))))

calculateMetricConsistency(values) ==
    ConsistencyOfVariance(VarianceAround(values, Mean(values)))

\* The mean of the three per-metric consistencies.
MeanConsistency(performances) ==
    Div(Add(Add(calculateMetricConsistency(Map(Kda, performances)),
                calculateMetricConsistency(Map(DamagePerMinute, performances))),
            calculateMetricConsistency(Map(VisionPerMinute, performances))),
        Num(3))

\* A slip: the default only for a single record or none.
ConsistencyFromTwoRecords(performances) ==
    IF Len(performances) < 2 THEN Num(50) ELSE MeanConsistency(performances)

calculateAdvancedConsistency(performances) ==
    IF Len(performances) < 3 THEN Num(50)
    ELSE MeanConsistency(performances)

\* (avgKDA * 25) + (avgDamage / 20) + (avgVision * 30) + (avgObjectives * 20),
\* clamped to [0, 100].
calculateGameImpact(performances) ==
    IF Len(performances) = 0 THEN Num(50)
    ELSE MathMin(Num(100),
             MathMax(Num(0),
                 Add(Add(Mul(Mean(Map(Kda, performances)), Num(25)),
                         Div(Mean(Map(DamagePerMinute, performances)), Num(20))),
                     Add(Mul(Mean(Map(VisionPerMinute, performances)), Num(30)),
                         Mul(Mean(Map(EpicMonstersOf, performances)),
                             Num(20))))))

\* The record calculatePerformanceMetrics returns for a non-empty list of
\* performances, totalGames = performances.length.
AggregateMetrics(performances, totalGames) ==
    [recentWinRate |-> Mul(Div(Num(Wins(performances)), totalGames), Num(100)),
     avgKDA |-> Div(SumSeq(Map(Kda, performances)), totalGames),
     avgKills |-> Div(SumSeq(Map(KillsOf, performances)), totalGames),
     avgDeaths |-> Div(SumSeq(Map(DeathsOf, performances)), totalGames),
     avgAssists |-> Div(SumSeq(Map(AssistsOf, performances)), totalGames),
     avgCSPerMinute |-> Div(SumSeq(Map(CsPerMinute, performances)), totalGames),
     avgVisionScorePerMinute |->
         Div(SumSeq(Map(VisionPerMinute, performances)), totalGames),
     avgDamagePerMinute |->
         Div(SumSeq(Map(DamagePerMinute, performances)), totalGames),
     objectiveParticipation |->
         Div(SumSeq(Map(ObjectivesOf, performances)), totalGames),
     consistency |-> calculateAdvancedConsistency(performances),
     gameImpact |-> calculateGameImpact(performances),
     performances |-> performances]

\* A slip: no early return for an empty list of performances.
MetricsWithoutDefault(performances) ==
    AggregateMetrics(performances, Num(Len(performances)))

\* if (performances.length === 0) return getDefaultMetrics()
MetricsOrDefault(performances) ==
    IF Len(performances) = 0 THEN getDefaultMetrics
    ELSE AggregateMetrics(performances, Num(Len(performances)))

calculatePerformanceMetrics(matches, puuid) ==
    MetricsOrDefault(Performances(matches, puuid))

\* ---------------------------------------------------------------- play style

RECURSIVE Distinct(_)
\* The distinct entries of s in order of first appearance (Map key order).
Distinct(s) ==
    IF s = <<>> THEN <<>>
    ELSE LET init == Distinct(SubSeq(s, 1, Len(s) - 1))
             last == s[Len(s)]
         IN  IF \E i \in 1..Len(init) : init[i] = last THEN init
             ELSE Append(init, last)

getDefaultPlayStyle ==
    [mostPlayedChampion |-> Null,
     championPool |-> <<>>,
     versatility |-> Num(30),
     specialization |-> Num(0)]

ChampionOf(p) == p.championName

PositionOf(p) == p.teamPosition

\* The participants' games on one champion.
GamesOn(performances, name) ==
    LET on(p) == p.championName = name IN SelectSeq(performances, on)

\* (kills + assists) / Math.max(deaths, 1)
ParticipantKda(p) ==
    Div(Num(p.kills + p.assists), Num(DeathsOrOne(p.deaths)))

\* The index, in Map key order, of the entry a stable sort by games
\* (descending) puts first.
MostPlayedIndex(performances, champions) ==
    CHOOSE i \in 1..Len(champions) :
        /\ \A j \in 1..Len(champions) :
               Len(GamesOn(performances, champions[j]))
                   <= Len(GamesOn(performances, champions[i]))
        /\ \A j \in 1..(i - 1) :
               Len(GamesOn(performances, champions[j]))
                   < Len(GamesOn(performances, champions[i]))

\* The mostPlayedChampion record from that champion's games.
ChampionSummary(name, played) ==
    [name |-> name,
     games |-> Len(played),
     winRate |-> Mul(Div(Num(Wins(played)), Num(Len(played))), Num(100)),
     avgKDA |-> Div(SumSeq(Map(ParticipantKda, played)), Num(Len(played)))]

\* The record analyzePlayStyle returns for a non-empty list of participants.
PlayStyleOf(performances, champions, positions, mostPlayed) ==
    [mostPlayedChampion |->
         ChampionSummary(mostPlayed, GamesOn(performances, mostPlayed)),
     championPool |-> champions,
     versatility |->
         MathMin(Num(100), Num(Len(champions) * 10 + Len(positions) * 15)),
     specialization |->
         Mul(Div(Num(Len(GamesOn(performances, mostPlayed))),
                 Num(Len(performances))), Num(100))]

PlayStyleOrDefault(performances, champions) ==
    IF Len(performances) = 0 THEN getDefaultPlayStyle
    ELSE PlayStyleOf(performances, champions,
                     Distinct(Map(PositionOf, performances)),
                     champions[MostPlayedIndex(performances, champions)])

\* matches.map(m => m.info.participants.find(...)).filter(Boolean)
FoundParticipants(matches, puuid) ==
    LET find(m) == FindParticipant(m, puuid)
    IN  SelectSeq(Map(find, matches), NotNull)

ChampionsOf(performances) == Distinct(Map(ChampionOf, performances))

analyzePlayStyle(matches, puuid) ==
    PlayStyleOrDefault(FoundParticipants(matches, puuid),
                       ChampionsOf(FoundParticipants(matches, puuid)))

\* -------------------------------------------------------------------- scorer

\* tierScores[tier] || 30
\* A slip: MASTER is given a base below DIAMOND's.
TierBaseScoreDip(tier) ==
    CASE tier = "IRON" -> 15
      [] tier = "BRONZE" -> 25
      [] tier = "SILVER" -> 35
      [] tier = "GOLD" -> 45
      [] tier = "PLATINUM" -> 60
      [] tier = "DIAMOND" -> 75
      [] tier = "MASTER" -> 70
      [] tier = "GRANDMASTER" -> 90
      [] tier = "CHALLENGER" -> 95
      [] OTHER -> 30

TierBaseScore(tier) ==
    CASE tier = "IRON" -> 15
      [] tier = "BRONZE" -> 25
      [] tier = "SILVER" -> 35
      [] tier = "GOLD" -> 45
      [] tier = "PLATINUM" -> 60
      [] tier = "DIAMOND" -> 75
      [] tier = "MASTER" -> 85
      [] tier = "GRANDMASTER" -> 90
      [] tier = "CHALLENGER" -> 95
      [] OTHER -> 30

\* A slip: the KDA score is not capped at 100.
WeightedSumUncapped(baseScore, avgKDA, avgCSPerMinute, avgVisionScorePerMinute, winRateScore, consistency) ==
    Add(Add(Add(Mul(baseScore, Rat(3, 10)),
                Mul(Mul(avgKDA, Num(25)), Rat(25, 100))),
            Add(Mul(MathMin(Num(100), Mul(avgCSPerMinute, Num(12))),
                    Rat(15, 100)),
                Mul(MathMin(Num(100), Mul(avgVisionScorePerMinute, Num(40))),
                    Rat(15, 100)))),
        Add(Mul(winRateScore, Rat(1, 10)), Mul(consistency, Rat(5, 100))))

\* baseScore * 0.3 + kdaScore * 0.25 + csScore * 0.15 + visionScore * 0.15
\* + winRateScore * 0.1 + consistency * 0.05
WeightedSum(baseScore, avgKDA, avgCSPerMinute, avgVisionScorePerMinute, winRateScore, consistency) ==
    Add(Add(Add(Mul(baseScore, Rat(3, 10)),
                Mul(MathMin(Num(100), Mul(avgKDA, Num(25))), Rat(25, 100))),
            Add(Mul(MathMin(Num(100), Mul(avgCSPerMinute, Num(12))),
                    Rat(15, 100)),
                Mul(MathMin(Num(100), Mul(avgVisionScorePerMinute, Num(40))),
                    Rat(15, 100)))),
        Add(Mul(winRateScore, Rat(1, 10)), Mul(consistency, Rat(5, 100))))

\* A slip: the season record's win rate in place of the recent one.
WeightedScoreOfSeasonWinRate(rank, metrics, playStyle) ==
    MathRound(MathMax(Num(0), MathMin(Num(100),
        WeightedSum(Num(TierBaseScore(rank.tier)), metrics.avgKDA,
                    metrics.avgCSPerMinute, metrics.avgVisionScorePerMinute,
                    Mul(Div(Num(rank.wins), Num(rank.wins + rank.losses)),
                        Num(100)),
                    metrics.consistency))))

calculateWeightedPotentialScore(rank, metrics, playStyle) ==
    MathRound(MathMax(Num(0), MathMin(Num(100),
        WeightedSum(Num(TierBaseScore(rank.tier)), metrics.avgKDA,
                    metrics.avgCSPerMinute, metrics.avgVisionScorePerMinute,
                    metrics.recentWinRate, metrics.consistency))))

\* A slip: the ascending bounds taken inclusively.
determineTrendInclusive(performance) ==
    IF Ge(performance.recentWinRate, Num(60)) /\ Ge(performance.avgKDA, Num(2))
    THEN "ascending"
    ELSE IF Lt(performance.recentWinRate, Num(45))
            /\ Lt(performance.avgKDA, Rat(3, 2))
         THEN "descending"
         ELSE "stable"

determineTrend(performance) ==
    IF Gt(performance.recentWinRate, Num(60)) /\ Gt(performance.avgKDA, Num(2))
    THEN "ascending"
    ELSE IF Lt(performance.recentWinRate, Num(45))
            /\ Lt(performance.avgKDA, Rat(3, 2))
         THEN "descending"
         ELSE "stable"

\* ----------------------------------------------------------------- narrative

\* if (cond) list.push(entry)
PushIf(list, cond, entry) == IF cond THEN Append(list, entry) ELSE list

\* list.slice(0, n)
Slice(list, n) == SubSeq(list, 1, IF Len(list) < n THEN Len(list) ELSE n)

\* trendTexts[trend]
TrendText(trend) ==
    CASE trend = "ascending" -> "rising"
      [] trend = "stable" -> "steady"
      [] trend = "descending" -> "falling"

Text(template, trendText) == [template |-> template, trend |-> trendText]

generateDynamicOneLiner(score, trend, metrics, playStyle) ==
    LET currentTrend == TrendText(trend)
    IN  IF Ge(score, Num(85))
        THEN IF Gt(metrics.avgKDA, Num(3)) /\ Gt(metrics.avgCSPerMinute, Num(7))
             THEN Text("carry", currentTrend)
             ELSE IF Gt(metrics.avgVisionScorePerMinute, Rat(5, 2))
                  THEN Text("strategist", currentTrend)
                  ELSE Text("all-round", currentTrend)
        ELSE IF Ge(score, Num(70))
        THEN IF Gt(metrics.consistency, Num(75))
             THEN Text("reliable", currentTrend)
             ELSE IF Gt(playStyle.versatility, Num(60))
                  THEN Text("versatile", currentTrend)
                  ELSE Text("growing", currentTrend)
        ELSE IF Ge(score, Num(55))
        THEN IF Gt(metrics.avgCSPerMinute, Num(6))
             THEN Text("farmer", currentTrend)
             ELSE IF Gt(metrics.objectiveParticipation, Num(2))
                  THEN Text("teamfighter", currentTrend)
                  ELSE Text("developing", currentTrend)
        ELSE IF Ge(score, Num(40))
        THEN Text("challenger", currentTrend)
        ELSE Text("learner", currentTrend)

\* (rankData.wins / (rankData.wins + rankData.losses)) * 100
RankWinRate(rank) ==
    Mul(Div(Num(rank.wins), Num(rank.wins + rank.losses)), Num(100))

\* The strengths array before slice(0, 4).
AdvancedStrengthCandidates(metrics, playStyle, rank) ==
    LET winRate == RankWinRate(rank)
        s1 == PushIf(<<>>, Gt(metrics.avgKDA, Rat(5, 2)), "kda")
        s2 == PushIf(s1, Gt(metrics.avgCSPerMinute, Rat(13, 2)), "farming")
        s3 == PushIf(s2, Gt(metrics.avgVisionScorePerMinute, Num(2)), "vision")
        s4 == PushIf(s3, Gt(metrics.recentWinRate, Num(65)), "momentum")
        s5 == PushIf(s4, Gt(metrics.consistency, Num(75)), "consistency")
        s6 == PushIf(s5, Gt(metrics.objectiveParticipation, Rat(5, 2)),
                     "objectives")
        s7 == PushIf(s6, Gt(playStyle.versatility, Num(70)), "champion pool")
        s8 == PushIf(s7, playStyle.mostPlayedChampion /= Null
                         /\ Gt(playStyle.mostPlayedChampion.winRate, Num(70)),
                     "main champion")
        s9 == PushIf(s8, Gt(winRate, Num(60)), "ranked win rate")
    IN  PushIf(s9, Len(s9) = 0, "passion")

\* A slip: the list returned without slice(0, 4).
identifyAdvancedStrengthsUncut(metrics, playStyle, rank) ==
    AdvancedStrengthCandidates(metrics, playStyle, rank)

identifyAdvancedStrengths(metrics, playStyle, rank) ==
    Slice(AdvancedStrengthCandidates(metrics, playStyle, rank), 4)

\* The improvements array before slice(0, 4).
AdvancedImprovementCandidates(metrics, playStyle, rank) ==
    LET winRate == RankWinRate(rank)
        s1 == PushIf(<<>>, Lt(metrics.avgKDA, Rat(18, 10)), "survival")
        s2 == PushIf(s1, Lt(metrics.avgCSPerMinute, Rat(11, 2)), "farming")
        s3 == PushIf(s2, Lt(metrics.avgVisionScorePerMinute, Rat(3, 2)), "vision")
        s4 == PushIf(s3, Lt(metrics.consistency, Num(60)), "consistency")
        s5 == PushIf(s4, Lt(metrics.objectiveParticipation, Rat(3, 2)),
                     "objectives")
        s6 == PushIf(s5, Lt(metrics.avgDamagePerMinute, Num(400)), "damage")
        s7 == PushIf(s6, Lt(playStyle.versatility, Num(40)), "champion pool")
        s8 == PushIf(s7, Lt(playStyle.specialization, Num(30)), "main champion")
        s9 == PushIf(s8, Lt(winRate, Num(55)), "ranked win rate")
    IN  PushIf(s9, Len(s9) = 0, "keep practising")

\* A slip: the last four entries are kept instead of the first four.
identifyAdvancedImprovementsLastFour(metrics, playStyle, rank) ==
    LET all == AdvancedImprovementCandidates(metrics, playStyle, rank)
    IN  SubSeq(all, IF Len(all) > 4 THEN Len(all) - 3 ELSE 1, Len(all))

identifyAdvancedImprovements(metrics, playStyle, rank) ==
    Slice(AdvancedImprovementCandidates(metrics, playStyle, rank), 4)

\* A slip: the match-only text picked by the buckets of the ranked text.
generateMatchBasedAnalysisRankBuckets(score, winRate, kda, csPerMin) ==
    IF Ge(score, Num(85)) THEN Text("top performer", "")
    ELSE IF Ge(score, Num(70)) THEN Text("steady performer", "")
    ELSE IF Ge(score, Num(55)) THEN Text("average performer", "")
    ELSE Text("needs practice", "")

generateMatchBasedAnalysis(score, winRate, kda, csPerMin) ==
    IF Ge(score, Num(80)) THEN Text("top performer", "")
    ELSE IF Ge(score, Num(65)) THEN Text("steady performer", "")
    ELSE IF Ge(score, Num(50)) THEN Text("average performer", "")
    ELSE Text("needs practice", "")

identifyMatchBasedStrengths(metrics, playStyle) ==
    LET avgKDA == Mean(Map(Kda, metrics))
        avgCSPerMin == Mean(Map(CsPerMinute, metrics))
        winRate == Div(Num(Wins(metrics)), Num(Len(metrics)))
        s1 == PushIf(<<>>, Ge(avgKDA, Rat(5, 2)), "kda")
        s2 == PushIf(s1, Ge(avgCSPerMin, Num(7)), "farming")
        s3 == PushIf(s2, Ge(winRate, Rat(6, 10)), "carry")
    IN  PushIf(s3, Len(s3) = 0, "passion")

identifyMatchBasedImprovements(metrics, playStyle) ==
    LET deaths(p) == Num(p.deaths)
        avgKDA == Mean(Map(Kda, metrics))
        avgCSPerMin == Mean(Map(CsPerMinute, metrics))
        avgDeaths == Mean(Map(deaths, metrics))
        s1 == PushIf(<<>>, Lt(avgKDA, Rat(3, 2)), "survival")
        s2 == PushIf(s1, Lt(avgCSPerMin, Num(6)), "farming")
        s3 == PushIf(s2, Gt(avgDeaths, Num(7)), "map awareness")
    IN  PushIf(s3, Len(s3) = 0, "keep playing")

\* ------------------------------------------------------------------ analysis

\* A slip: the 2.0 KDA threshold taken strictly.
KdaPointsStrict(avgKDA) ==
    IF Ge(avgKDA, Num(3)) THEN 25
    ELSE IF Gt(avgKDA, Num(2)) THEN 15
    ELSE IF Ge(avgKDA, Rat(3, 2)) THEN 10
    ELSE IF Ge(avgKDA, Num(1)) THEN 5
    ELSE 0

\* if (avgKDA >= 3.0) += 25, else if >= 2.0 += 15, >= 1.5 += 10, >= 1.0 += 5
KdaPoints(avgKDA) ==
    IF Ge(avgKDA, Num(3)) THEN 25
    ELSE IF Ge(avgKDA, Num(2)) THEN 15
    ELSE IF Ge(avgKDA, Rat(3, 2)) THEN 10
    ELSE IF Ge(avgKDA, Num(1)) THEN 5
    ELSE 0

\* if (winRate >= 70) += 25, else if >= 60 += 20, >= 55 += 15, >= 50 += 10
WinRatePoints(winRate) ==
    IF Ge(winRate, Num(70)) THEN 25
    ELSE IF Ge(winRate, Num(60)) THEN 20
    ELSE IF Ge(winRate, Num(55)) THEN 15
    ELSE IF Ge(winRate, Num(50)) THEN 10
    ELSE 0

\* if (avgCSPerMin >= 8.0) += 15, else if >= 6.5 += 10, >= 5.0 += 5
CsPoints(avgCSPerMin) ==
    IF Ge(avgCSPerMin, Num(8)) THEN 15
    ELSE IF Ge(avgCSPerMin, Rat(13, 2)) THEN 10
    ELSE IF Ge(avgCSPerMin, Num(5)) THEN 5
    ELSE 0

\* if (avgVisionScore >= 2.0) += 10, else if >= 1.5 += 5
VisionPoints(avgVisionScore) ==
    IF Ge(avgVisionScore, Num(2)) THEN 10
    ELSE IF Ge(avgVisionScore, Rat(3, 2)) THEN 5
    ELSE 0

\* winRate >= 60 ? 'ascending' : winRate <= 40 ? 'descending' : 'stable'
MatchOnlyTrend(winRate) ==
    IF Ge(winRate, Num(60)) THEN "ascending"
    ELSE IF Le(winRate, Num(40)) THEN "descending"
    ELSE "stable"

\* What one call computes: the metrics local (Null where
\* calculatePerformanceMetrics is not called) and the returned record.
Outcome(metrics, result) == [metrics |-> metrics, analysis |-> result]

\* A slip: the sum of base and bonuses returned without the clamp.
MatchOnlyScoreUnclamped(avgKDA, winRate, avgCSPerMin, avgVisionScore) ==
    Num(50 + KdaPoints(avgKDA) + WinRatePoints(winRate)
        + CsPoints(avgCSPerMin) + VisionPoints(avgVisionScore))

\* Math.min(100, Math.max(0, 50 + the four threshold bonuses))
MatchOnlyScore(avgKDA, winRate, avgCSPerMin, avgVisionScore) ==
    MathMin(Num(100),
        MathMax(Num(0),
            Num(50 + KdaPoints(avgKDA) + WinRatePoints(winRate)
                + CsPoints(avgCSPerMin) + VisionPoints(avgVisionScore))))

\* Math.round((wins / validPerformances.length) * 100)
MatchOnlyWinRate(validPerformances) ==
    MathRound(Mul(Div(Num(Wins(validPerformances)),
                      Num(Len(validPerformances))), Num(100)))

\* The record analyzeByMatchDataOnly returns for a non-empty match list.
MatchOnlyResult(recentGames, validPerformances, playStyleAnalysis, winRate, avgKDA, avgCSPerMin, potentialScore) ==
    [rank |-> "Performance-Based", tier |-> "", lp |-> 0,
     winRate |-> winRate, recentGames |-> recentGames,
     potentialScore |-> potentialScore,
     potentialText |->
         generateMatchBasedAnalysis(potentialScore, winRate, avgKDA,
                                    avgCSPerMin),
     strengths |->
         identifyMatchBasedStrengths(validPerformances, playStyleAnalysis),
     improvements |->
         identifyMatchBasedImprovements(validPerformances, playStyleAnalysis),
     trend |-> MatchOnlyTrend(winRate)]

\* analyzeByMatchDataOnly from validPerformances on.
MatchOnlyFrom(recentGames, validPerformances, playStyleAnalysis, winRate, avgKDA, avgCSPerMin) ==
    MatchOnlyResult(recentGames, validPerformances, playStyleAnalysis, winRate,
                    avgKDA, avgCSPerMin,
                    MatchOnlyScore(avgKDA, winRate, avgCSPerMin,
                                   Mean(Map(VisionPerMinute, validPerformances))))

\* analyzeByMatchDataOnly from the computed metrics on;
\* validPerformances = performanceMetrics.performances.filter(p => p !== null).
MatchOnlyAnalysis(recentGames, validPerformances, playStyleAnalysis) ==
    MatchOnlyFrom(recentGames, validPerformances, playStyleAnalysis,
                  MatchOnlyWinRate(validPerformances),
                  Mean(Map(Kda, validPerformances)),
                  Mean(Map(CsPerMinute, validPerformances)))

\* The record returned for an empty match list.
NoMatchesResult ==
    [rank |-> "Unknown", tier |-> "", lp |-> 0,
     winRate |-> Num(0), recentGames |-> 0,
     potentialScore |-> Num(50),
     potentialText |-> Text("not enough games", ""),
     strengths |-> <<"play more">>,
     improvements |-> <<"more activity">>,
     trend |-> "stable"]

\* analyzeByMatchDataOnly once calculatePerformanceMetrics has returned.
MatchOnlyOutcome(recentGames, metrics, playStyleAnalysis) ==
    Outcome(metrics,
            MatchOnlyAnalysis(recentGames, SelectSeq(metrics.performances, NotNull),
                              playStyleAnalysis))

analyzeByMatchDataOnly(matches, puuid) ==
    IF Len(matches) = 0 THEN Outcome(Null, NoMatchesResult)
    ELSE MatchOnlyOutcome(Len(matches),
                          calculatePerformanceMetrics(matches, puuid),
                          analyzePlayStyle(matches, puuid))

\* The record analyzePotential returns when a rank entry is present.
RankedResult(rank, recentGames, metrics, playStyleAnalysis, potentialScore, trend) ==
    [rank |-> rank.tier, tier |-> rank.rank, lp |-> rank.leaguePoints,
     winRate |-> MathRound(RankWinRate(rank)), recentGames |-> recentGames,
     potentialScore |-> potentialScore,
     potentialText |->
         generateDynamicOneLiner(potentialScore, trend, metrics,
                                 playStyleAnalysis),
     strengths |-> identifyAdvancedStrengths(metrics, playStyleAnalysis, rank),
     improvements |->
         identifyAdvancedImprovements(metrics, playStyleAnalysis, rank),
     trend |-> trend]

\* analyzePotential once calculatePerformanceMetrics and analyzePlayStyle
\* have returned.
RankedOutcome(rank, recentGames, metrics, playStyleAnalysis) ==
    Outcome(metrics,
            RankedResult(rank, recentGames, metrics, playStyleAnalysis,
                         calculateWeightedPotentialScore(rank, metrics,
                                                         playStyleAnalysis),
                         determineTrend(metrics)))

analyzePotential(rank, matches, puuid) ==
    IF rank = Null THEN analyzeByMatchDataOnly(matches, puuid)
    ELSE RankedOutcome(rank, Len(matches),
                       calculatePerformanceMetrics(matches, puuid),
                       analyzePlayStyle(matches, puuid))

\* --------------------------------------------------------------- data client
\* src/src/utils/riotApi.ts.  An absent or empty string is "" (both falsy).

\* obj.name, "" when the object has no such field.
Field(obj, name) == IF name \in DOMAIN obj THEN obj[name] ELSE ""

\* What fetch comes back with: a response of some status, a response whose
\* body response.json() cannot parse, or a rejected promise.
HttpResponse(status, body) ==
    [kind |-> "response", status |-> status, body |-> body]

MalformedResponse == [kind |-> "malformed", status |-> 200]

NetworkFailure == [kind |-> "rejected"]

\* response.ok
ResponseOk(status) == status >= 200 /\ status <= 299

\* new RiotApiError(message, status)
RiotApiError(message, status) ==
    [threw |-> TRUE, name |-> "RiotApiError", message |-> message,
     status |-> status]

\* new Error(message): an error without a status field.
PlainError(message) == [threw |-> TRUE, name |-> "Error", message |-> message]

\* A value an awaited call resolves with.
Resolved(value) == [threw |-> FALSE, value |-> value]

\* A slip: a non-OK response other than 404 resolves with its body.
makeApiRequestLenient(apiKeyConfigured, answer) ==
    IF ~apiKeyConfigured
    THEN RiotApiError("Riot API key is not configured", 500)
    ELSE IF answer.kind = "rejected" \/ answer.kind = "malformed"
    THEN RiotApiError("Network error", 500)
    ELSE IF answer.status = 404 THEN RiotApiError("Resource not found", 404)
    ELSE Resolved(answer.body)

\* makeApiRequest(url) once fetch has come back with the answer; without a
\* key it throws before fetch is called.
makeApiRequest(apiKeyConfigured, answer) ==
    IF ~apiKeyConfigured
    THEN RiotApiError("Riot API key is not configured", 500)
    ELSE IF answer.kind = "rejected" \/ answer.kind = "malformed"
    THEN RiotApiError("Network error", 500)
    ELSE IF ~ResponseOk(answer.status)
    THEN CASE answer.status = 404 -> RiotApiError("Resource not found", 404)
           [] answer.status = 403 -> RiotApiError("API key forbidden", 403)
           [] answer.status = 401 -> RiotApiError("API key unauthorized", 401)
           [] answer.status = 429 -> RiotApiError("Rate limit exceeded", 429)
           [] OTHER -> RiotApiError("API request failed", answer.status)
    ELSE Resolved(answer.body)

\* The non-OK statuses the upstream answers with.
ErrorStatuses == {401, 403, 404, 429, 503}

\* One upstream call: the endpoint and its argument.
Request(endpoint, arg) == [endpoint |-> endpoint, arg |-> arg]

\* The summoner id the upstream knows the analysed player by.
UpstreamSummonerId == "S1"

\* Bodies of the account lookups (by Riot ID, by legacy name).
AccountBodies == {[puuid |-> summonerPuuid, gameName |-> "a"], [gameName |-> "a"]}

\* Bodies of summoner-by-puuid: the id under its documented name, under an
\* older name, or withheld.
SummonerBodies ==
    {[id |-> UpstreamSummonerId, summonerLevel |-> 120],
     [summonerId |-> UpstreamSummonerId, summonerLevel |-> 120],
     [summonerLevel |-> 120]}

SoloEntry == RankEntry("GOLD", "II", 40, 7, 3)

FlexEntry ==
    [RankEntry("SILVER", "I", 10, 4, 6) EXCEPT !.queueType = "RANKED_FLEX_SR"]

\* Bodies of league-entries-by-summoner.
LeagueBodies == {<<>>, <<FlexEntry>>, <<FlexEntry, SoloEntry>>}

\* Bodies of match-ids-by-puuid: the newest ids first, at most MaxIds.
MatchIdBodies == {[k \in 1..n |-> k] : n \in 0..MaxIds}

\* The account-wide fields every participant record carries.
Profiled(p) ==
    p @@ [summonerLevel |-> 120, goldEarned |-> 9000, summonerName |-> "a"]

\* What the upstream stores with the player's records: the summoner id, or
\* no id and (in match 2) a tier and a division.
Worlds == {"anonymous", "identified"}

Decorated(p, world, matchId) ==
    IF p.puuid /= summonerPuuid THEN Profiled(p)
    ELSE IF world = "identified"
    THEN Profiled(p) @@ [summonerId |-> UpstreamSummonerId]
    ELSE IF matchId = 2
    THEN Profiled(p) @@ [tier |-> "PLATINUM", rank |-> "IV"]
    ELSE Profiled(p)

\* The stored match of each id.
StoredMatch(matchId) ==
    CASE matchId % 4 = 1 -> StarGame
      [] matchId % 4 = 2 -> PoorGame
      [] matchId % 4 = 3 -> AbsentGame
      [] OTHER -> FairGame

\* Body of match-by-id.
MatchBody(world, matchId) ==
    LET match == StoredMatch(matchId)
    IN  MatchData(match.info.gameDuration,
                  [i \in 1..Len(match.info.participants) |->
                      Decorated(match.info.participants[i], world, matchId)])

\* The bodies an OK response to the request can carry.
Bodies(world, request) ==
    CASE request.endpoint \in {"account", "summoner-by-name"} -> AccountBodies
      [] request.endpoint = "summoner" -> SummonerBodies
      [] request.endpoint = "league" -> LeagueBodies
      [] request.endpoint = "match-ids" -> MatchIdBodies
      [] OTHER -> {MatchBody(world, request.arg)}

\* Everything fetch can come back with for the request.
Answers(world, request) ==
    {HttpResponse(200, body) : body \in Bodies(world, request)}
    \cup {HttpResponse(status, Null) : status \in ErrorStatuses}
    \cup {MalformedResponse, NetworkFailure}

\* -------------------------------------------------------------- rank estimate
\* extractRankFromMatches once its match details are fetched.

\* data.find(entry => entry.queueType === 'RANKED_SOLO_5x5'), Null if none.
FindSolo(entries) ==
    LET hits == {i \in 1..Len(entries) :
                    entries[i].queueType = "RANKED_SOLO_5x5"}
    IN  IF hits = {} THEN Null
        ELSE entries[CHOOSE i \in hits : \A j \in hits : i <= j]

\* participant && participant.tier && participant.rank
HasEmbeddedRank(participant) ==
    /\ participant /= Null
    /\ Field(participant, "tier") /= ""
    /\ Field(participant, "rank") /= ""

\* The entry built from the first match that carries a tier and a division.
EmbeddedRank(participant) ==
    RankEntry(participant.tier, participant.rank,
              IF "leaguePoints" \in DOMAIN participant
              THEN participant.leaguePoints ELSE 0, 0, 0)
    @@ [leagueId |-> "extracted-from-match", hotStreak |-> FALSE]

\* The record pushed to playerStats for one found participant.
PlayerStat(participant, gameDurationMin) ==
    [playerLevel |-> Num(participant.summonerLevel),
     kda |-> IF participant.deaths > 0
             THEN Div(Num(participant.kills + participant.assists),
                      Num(participant.deaths))
             ELSE Num(participant.kills + participant.assists),
     csPerMin |-> Div(Num(participant.totalMinionsKilled
                          + participant.neutralMinionsKilled), gameDurationMin),
     damagePerMin |-> Div(Num(participant.totalDamageDealtToChampions),
                          gameDurationMin),
     goldPerMin |-> Div(Num(participant.goldEarned), gameDurationMin),
     visionScorePerMin |-> Div(Num(participant.visionScore), gameDurationMin),
     win |-> participant.win]

PlayerStatOrNull(participant, gameDuration) ==
    IF participant = Null THEN Null
    ELSE PlayerStat(participant, Div(Num(gameDuration), Num(60)))

\* The loop over matchDetails: one record per match the player is found in.
PlayerStats(matchDetails, puuid) ==
    LET stat(m) == PlayerStatOrNull(FindParticipant(m, puuid),
                                    m.info.gameDuration)
    IN  SelectSeq(Map(stat, matchDetails), NotNull)

StatLevel(s) == s.playerLevel

StatKda(s) == s.kda

StatCs(s) == s.csPerMin

StatVision(s) == s.visionScorePerMin

StatDamage(s) == s.damagePerMin

StatGold(s) == s.goldPerMin

StatWin(s) == IF s.win THEN Num(1) ELSE Num(0)

\* matchCount > 0 ? total / matchCount : fallback
AverageOr(values, fallback) ==
    IF Len(values) > 0 THEN Div(SumSeq(values), Num(Len(values)))
    ELSE fallback

AvgStats(playerStats) ==
    [level |-> AverageOr(Map(StatLevel, playerStats), Num(30)),
     kda |-> AverageOr(Map(StatKda, playerStats), Num(1)),
     csPerMin |-> AverageOr(Map(StatCs, playerStats), Num(5)),
     visionScorePerMin |-> AverageOr(Map(StatVision, playerStats), Num(1)),
     damagePerMin |-> AverageOr(Map(StatDamage, playerStats), Num(400)),
     goldPerMin |-> AverageOr(Map(StatGold, playerStats), Num(300)),
     winRate |-> IF Len(playerStats) > 0
                 THEN Mul(Div(SumSeq(Map(StatWin, playerStats)),
                              Num(Len(playerStats))), Num(100))
                 ELSE Num(50)]

LevelFactor(level) ==
    IF Ge(level, Num(300)) THEN 20 ELSE IF Ge(level, Num(200)) THEN 15
    ELSE IF Ge(level, Num(150)) THEN 12 ELSE IF Ge(level, Num(100)) THEN 8
    ELSE IF Ge(level, Num(50)) THEN 5 ELSE 0

KdaFactor(kda) ==
    IF Ge(kda, Num(3)) THEN 25 ELSE IF Ge(kda, Rat(5, 2)) THEN 20
    ELSE IF Ge(kda, Num(2)) THEN 15 ELSE IF Ge(kda, Rat(3, 2)) THEN 10
    ELSE IF Ge(kda, Num(1)) THEN 5 ELSE 0

CsFactor(csPerMin) ==
    IF Ge(csPerMin, Num(8)) THEN 20 ELSE IF Ge(csPerMin, Num(7)) THEN 15
    ELSE IF Ge(csPerMin, Num(6)) THEN 12 ELSE IF Ge(csPerMin, Num(5)) THEN 8
    ELSE IF Ge(csPerMin, Num(4)) THEN 4 ELSE 0

VisionFactor(visionScorePerMin) ==
    IF Ge(visionScorePerMin, Rat(5, 2)) THEN 15
    ELSE IF Ge(visionScorePerMin, Num(2)) THEN 12
    ELSE IF Ge(visionScorePerMin, Rat(3, 2)) THEN 8
    ELSE IF Ge(visionScorePerMin, Num(1)) THEN 5 ELSE 0

DamageFactor(damagePerMin) ==
    IF Ge(damagePerMin, Num(800)) THEN 15
    ELSE IF Ge(damagePerMin, Num(600)) THEN 12
    ELSE IF Ge(damagePerMin, Num(500)) THEN 8
    ELSE IF Ge(damagePerMin, Num(400)) THEN 5 ELSE 0

WinRateFactor(winRate) ==
    IF Ge(winRate, Num(70)) THEN 5 ELSE IF Ge(winRate, Num(60)) THEN 3
    ELSE IF Ge(winRate, Num(50)) THEN 1 ELSE 0

RankScore(avgStats) ==
    LevelFactor(avgStats.level) + KdaFactor(avgStats.kda)
    + CsFactor(avgStats.csPerMin) + VisionFactor(avgStats.visionScorePerMin)
    + DamageFactor(avgStats.damagePerMin) + WinRateFactor(avgStats.winRate)

EstimatedTier(rankScore) ==
    IF rankScore >= 85 THEN "DIAMOND" ELSE IF rankScore >= 70 THEN "PLATINUM"
    ELSE IF rankScore >= 55 THEN "GOLD" ELSE IF rankScore >= 35 THEN "SILVER"
    ELSE IF rankScore >= 20 THEN "BRONZE" ELSE "IRON"

\* A slip: the two divisions of the top tier are swapped.
EstimatedRankSwapped(rankScore) ==
    IF rankScore >= 85 THEN (IF rankScore >= 90 THEN "IV" ELSE "III")
    ELSE IF rankScore >= 70 THEN (IF rankScore >= 80 THEN "II" ELSE "III")
    ELSE IF rankScore >= 55
    THEN (IF rankScore >= 65 THEN "I" ELSE IF rankScore >= 60 THEN "II"
          ELSE "III")
    ELSE IF rankScore >= 35
    THEN (IF rankScore >= 50 THEN "I" ELSE IF rankScore >= 45 THEN "II"
          ELSE IF rankScore >= 40 THEN "III" ELSE "IV")
    ELSE IF rankScore >= 20
    THEN (IF rankScore >= 30 THEN "I" ELSE IF rankScore >= 25 THEN "II"
          ELSE "III")
    ELSE (IF rankScore >= 15 THEN "II" ELSE IF rankScore >= 10 THEN "III"
          ELSE "IV")

EstimatedRank(rankScore) ==
    IF rankScore >= 85 THEN (IF rankScore >= 90 THEN "III" ELSE "IV")
    ELSE IF rankScore >= 70 THEN (IF rankScore >= 80 THEN "II" ELSE "III")
    ELSE IF rankScore >= 55
    THEN (IF rankScore >= 65 THEN "I" ELSE IF rankScore >= 60 THEN "II"
          ELSE "III")
    ELSE IF rankScore >= 35
    THEN (IF rankScore >= 50 THEN "I" ELSE IF rankScore >= 45 THEN "II"
          ELSE IF rankScore >= 40 THEN "III" ELSE "IV")
    ELSE IF rankScore >= 20
    THEN (IF rankScore >= 30 THEN "I" ELSE IF rankScore >= 25 THEN "II"
          ELSE "III")
    ELSE (IF rankScore >= 15 THEN "II" ELSE IF rankScore >= 10 THEN "III"
          ELSE "IV")

\* a || b on numbers: b when a is 0 or NaN.
OrElse(a, b) == IF IsNaN(a) \/ a = Num(0) THEN b ELSE a

\* Math.max(0, Math.min(100, (rankScore - 20) * 2))
EstimatedLeaguePoints(rankScore) ==
    LET lp == (rankScore - 20) * 2
    IN  IF lp < 0 THEN 0 ELSE IF lp > 100 THEN 100 ELSE lp

\* The entry returned with leagueId 'estimated-enhanced'.
EstimatedEntry(avgStats, rankScore) ==
    RankEntry(EstimatedTier(rankScore), EstimatedRank(rankScore),
              EstimatedLeaguePoints(rankScore),
              MathRound(Div(OrElse(avgStats.winRate, Num(50)), Num(10)))[1],
              MathRound(Div(Sub(Num(100), OrElse(avgStats.winRate, Num(50))),
                            Num(10)))[1])
    @@ [leagueId |-> "estimated-enhanced",
        hotStreak |-> Gt(avgStats.winRate, Num(65))]

EstimateFromStats(avgStats) == EstimatedEntry(avgStats, RankScore(avgStats))

\* Lines 271-446: the embedded rank of the first match that has one, else
\* the estimate.
RankFromDetails(matchDetails, puuid) ==
    LET embedded(m) == HasEmbeddedRank(FindParticipant(m, puuid))
        carrying == SelectSeq(matchDetails, embedded)
    IN  IF carrying /= <<>>
        THEN EmbeddedRank(FindParticipant(carrying[1], puuid))
        ELSE EstimateFromStats(AvgStats(PlayerStats(matchDetails, puuid)))

\* ------------------------------------------------------------ request handler
\* src/src/app/api/analysis/route.ts and the calls it makes into riotApi.ts.
\* A frame holds the locals of the running call; each operator below is the
\* code that runs, without awaiting, from one await to the next.

\* The frame moves to a call site, about to issue the request.
Goto(frame, site, request) == [frame EXCEPT !.pc = site, !.request = request]

\* NextResponse.json(body, { status })
Respond(frame, status, body) ==
    [frame EXCEPT !.pc = "responded",
                  !.responses = Append(@, [status |-> status, body |-> body])]

\* A slip: every caught error is answered with 500.
CatchAlways500(frame, error) ==
    Respond(frame, 500, [error |-> error.message])

\* The catch block of POST.
Catch(frame, error) ==
    IF "status" \in DOMAIN error /\ error.status = 429
    THEN Respond(frame, 429, [error |-> "Rate limit exceeded"])
    ELSE Respond(frame, 500, [error |-> error.message])

\* An exported function of the data client returns to its outside caller.
Return(frame, value) ==
    [frame EXCEPT !.pc = "returned", !.returned = Resolved(value)]

\* fetchRankData returns: to POST, which goes on to fetchMatchHistory(puuid,
\* 20), or to an outside caller.
ReturnRank(frame, rank) ==
    IF frame.entry = "POST"
    THEN Goto([frame EXCEPT !.rankData = rank], "history",
              Request("match-ids", <<frame.puuid, 20>>))
    ELSE Return(frame, rank)

\* POST once fetchMultipleMatchDetails has returned: analyzePotential and
\* the success response.
RespondWithAnalysis(frame, matchDetails) ==
    Respond([frame EXCEPT !.matchDetails = matchDetails], 200,
            [success |-> TRUE,
             data |-> analyzePotential(frame.rankData, matchDetails,
                                       frame.puuid).analysis])

\* extractRankFromMatches once its batch has returned (lines 267-446).
RankFromBatch(frame, matchDetails) ==
    IF matchDetails = <<>> THEN ReturnRank(frame, Null)
    ELSE ReturnRank(frame, RankFromDetails(matchDetails, frame.puuid))

\* fetchMultipleMatchDetails returns its results to whoever called it.
FinishBatch(frame) ==
    CASE frame.caller = "extractRankFromMatches" ->
             RankFromBatch(frame, frame.results)
      [] frame.caller = "POST" -> RespondWithAnalysis(frame, frame.results)
      [] OTHER -> Return(frame, frame.results)

\* A slip: the loop stops one id short.
LoopTestOffByOne(frame) ==
    IF frame.i < Len(frame.batchIds) - 1
    THEN Goto(frame, "batchFetch", Request("match", frame.batchIds[frame.i + 1]))
    ELSE FinishBatch(frame)

\* The loop test of fetchMultipleMatchDetails: i < matchIds.length.
LoopTest(frame) ==
    IF frame.i < Len(frame.batchIds)
    THEN Goto(frame, "batchFetch", Request("match", frame.batchIds[frame.i + 1]))
    ELSE FinishBatch(frame)

\* fetchMultipleMatchDetails(matchIds) is entered.
StartBatch(frame, matchIds, caller) ==
    LoopTest([frame EXCEPT !.batchIds = matchIds, !.i = 0, !.results = <<>>,
                           !.caller = caller])

\* A slip: the first failed fetch ends the batch.
AfterMatchDetailsAbort(frame, result) ==
    IF result.threw THEN FinishBatch(frame)
    ELSE IF frame.i < Len(frame.batchIds) - 1
    THEN [frame EXCEPT !.results = Append(@, result.value),
                       !.pc = "batchPause"]
    ELSE LoopTest([frame EXCEPT !.results = Append(@, result.value),
                                !.i = @ + 1])

\* The body of the loop once fetchMatchDetails(matchIds[i]) has settled.
AfterMatchDetails(frame, result) ==
    IF result.threw THEN LoopTest([frame EXCEPT !.i = @ + 1])
    ELSE IF frame.i < Len(frame.batchIds) - 1
    THEN [frame EXCEPT !.results = Append(@, result.value),
                       !.pc = "batchPause"]
    ELSE LoopTest([frame EXCEPT !.results = Append(@, result.value),
                                !.i = @ + 1])

\* The 3 s pause is over: i++ and the loop test.
AfterPause(frame) == LoopTest([frame EXCEPT !.i = @ + 1])

\* matchIds.slice(0, Math.min(3, matchIds.length))
FirstThree(matchIds) ==
    SubSeq(matchIds, 1, IF Len(matchIds) < 3 THEN Len(matchIds) ELSE 3)

\* extractRankFromMatches falls back to estimation.
StartEstimation(frame) ==
    StartBatch(frame, FirstThree(frame.estIds), "extractRankFromMatches")

\* extractRankFromMatches once its league lookup has settled.
AfterEstLeague(frame, result) ==
    IF result.threw THEN StartEstimation(frame)
    ELSE IF Len(result.value) > 0 /\ FindSolo(result.value) /= Null
    THEN ReturnRank(frame, FindSolo(result.value))
    ELSE StartEstimation(frame)

\* The first match is in: look for the participant's summoner id.
AfterFirstMatchOf(frame, participant) ==
    IF participant /= Null /\ Field(participant, "summonerId") /= ""
    THEN Goto(frame, "estLeague", Request("league", participant.summonerId))
    ELSE StartEstimation(frame)

\* extractRankFromMatches once fetchMatchDetails(matchIds[0]) has settled.
AfterFirstMatch(frame, result) ==
    IF result.threw THEN ReturnRank(frame, Null)
    ELSE AfterFirstMatchOf(frame, FindParticipant(result.value, frame.puuid))

\* extractRankFromMatches once fetchMatchHistory(puuid, 10) has settled.
AfterEstHistory(frame, result) ==
    IF result.threw THEN ReturnRank(frame, Null)
    ELSE IF Len(result.value) = 0 THEN ReturnRank(frame, Null)
    ELSE Goto([frame EXCEPT !.estIds = result.value], "estFirstMatch",
              Request("match", result.value[1]))

\* The entry fetchRankData returns for a player without league entries.
UnrankedEntry ==
    RankEntry("UNRANKED", "", 0, 0, 0) @@ [leagueId |-> "unranked"]

\* A slip: a failed league lookup falls back to the estimate.
AfterLeagueFallsBack(frame, result) ==
    IF result.threw /\ frame.puuid /= ""
    THEN Goto(frame, "estHistory", Request("match-ids", <<frame.puuid, 10>>))
    ELSE IF result.threw THEN ReturnRank(frame, Null)
    ELSE IF Len(result.value) > 0
    THEN (IF FindSolo(result.value) /= Null
          THEN ReturnRank(frame, FindSolo(result.value))
          ELSE ReturnRank(frame, result.value[1]))
    ELSE ReturnRank(frame, UnrankedEntry)

\* A slip: a failed league lookup is thrown on to the caller.
AfterLeagueRethrow(frame, result) ==
    IF result.threw
    THEN (IF frame.entry = "POST" THEN Catch(frame, result)
          ELSE [frame EXCEPT !.pc = "returned", !.returned = result])
    ELSE IF Len(result.value) > 0
    THEN (IF FindSolo(result.value) /= Null
          THEN ReturnRank(frame, FindSolo(result.value))
          ELSE ReturnRank(frame, result.value[1]))
    ELSE ReturnRank(frame, UnrankedEntry)

\* fetchRankData once its league lookup has settled (lines 142-182).
AfterLeague(frame, result) ==
    IF result.threw THEN ReturnRank(frame, Null)
    ELSE IF Len(result.value) > 0
    THEN (IF FindSolo(result.value) /= Null
          THEN ReturnRank(frame, FindSolo(result.value))
          ELSE ReturnRank(frame, result.value[1]))
    ELSE ReturnRank(frame, UnrankedEntry)

\* fetchRankData from line 131 on: estimate, give up, or look the league up.
WithSummonerId(frame, summonerId) ==
    IF summonerId = "" /\ frame.puuid /= ""
    THEN Goto([frame EXCEPT !.summonerId = summonerId], "estHistory",
              Request("match-ids", <<frame.puuid, 10>>))
    ELSE IF summonerId = "" THEN ReturnRank(frame, Null)
    ELSE Goto([frame EXCEPT !.summonerId = summonerId], "league",
              Request("league", summonerId))

\* summonerData.id || summonerData.summonerId || summonerData.encryptedSummonerId
ExtractSummonerId(summonerData) ==
    IF Field(summonerData, "id") /= "" THEN summonerData.id
    ELSE IF Field(summonerData, "summonerId") /= "" THEN summonerData.summonerId
    ELSE Field(summonerData, "encryptedSummonerId")

\* fetchRankData once its own summoner lookup has settled (lines 113-129).
AfterRankSummoner(frame, result) ==
    IF result.threw THEN WithSummonerId(frame, "")
    ELSE WithSummonerId(frame, ExtractSummonerId(result.value))

\* fetchRankData(summonerId, puuid) is entered.
fetchRankData(frame, summonerId) ==
    IF summonerId = "" /\ frame.puuid /= ""
    THEN Goto([frame EXCEPT !.summonerId = summonerId], "rankSummoner",
              Request("summoner", frame.puuid))
    ELSE WithSummonerId(frame, summonerId)

\* POST once fetchMatchHistory(puuid, 20) has settled.
AfterHistory(frame, result) ==
    IF result.threw THEN Catch(frame, result)
    ELSE StartBatch(frame, result.value, "POST")

\* A slip: a failed summoner lookup is ignored.
AfterSummonerIgnoresFailure(frame, result) ==
    IF result.threw THEN fetchRankData(frame, "")
    ELSE fetchRankData(frame, Field(result.value, "id"))

\* POST once fetchSummonerByPuuid has settled: fetchRankData(summonerData?.id,
\* accountData.puuid).
AfterSummoner(frame, result) ==
    IF result.threw THEN Catch(frame, result)
    ELSE fetchRankData(frame, Field(result.value, "id"))

\* POST once the account lookup has settled.
AfterAccount(frame, result) ==
    IF result.threw THEN Catch(frame, result)
    ELSE IF Field(result.value, "puuid") = ""
    THEN Catch(frame, PlainError("PUUID not found"))
    ELSE Goto([frame EXCEPT !.puuid = result.value.puuid], "summoner",
              Request("summoner", result.value.puuid))

\* ------------------------------------------------------------- request input
\* A string is modelled as the sequence of its characters.

\* text.includes(ch)
Includes(text, ch) == \E i \in 1..Len(text) : text[i] = ch

RECURSIVE Split(_, _)
\* text.split(sep) for a one-character separator.
Split(text, sep) ==
    IF ~Includes(text, sep) THEN <<text>>
    ELSE LET at == CHOOSE i \in 1..Len(text) :
                       text[i] = sep /\ \A j \in 1..(i - 1) : text[j] /= sep
         IN  <<SubSeq(text, 1, at - 1)>>
             \o Split(SubSeq(text, at + 1, Len(text)), sep)

\* The character a percent escape stands for, "" when it is not an escape
\* (the escapes that can be written with the digits 2 and 3).
Unescaped(hi, lo) ==
    CASE hi = "2" /\ lo = "2" -> "quote"
      [] hi = "2" /\ lo = "3" -> "#"
      [] hi = "3" /\ lo = "2" -> "2"
      [] hi = "3" /\ lo = "3" -> "3"
      [] OTHER -> ""

\* The decoded character goes in front of the decoded rest.
Prefixed(ch, rest) ==
    IF rest.threw THEN rest ELSE Resolved(<<ch>> \o rest.value)

RECURSIVE decodeURIComponent(_)
\* decodeURIComponent(text): throws URIError on a malformed escape.
decodeURIComponent(text) ==
    IF text = <<>> THEN Resolved(<<>>)
    ELSE IF text[1] /= "%"
    THEN Prefixed(text[1], decodeURIComponent(Tail(text)))
    ELSE IF Len(text) < 3 \/ Unescaped(text[2], text[3]) = ""
    THEN PlainError("URI malformed")
    ELSE Prefixed(Unescaped(text[2], text[3]),
                  decodeURIComponent(SubSeq(text, 4, Len(text))))

\* The body's summonerInput: absent, or a string.
Missing == [present |-> FALSE, text |-> <<>>]

InputText(chars) == [present |-> TRUE, text |-> chars]

\* The values of summonerInput a request body carries.
Inputs ==
    {Missing, InputText(<<>>), InputText(<<"a", "#", "k">>), InputText(<<"a">>),
     InputText(<<"a", "%", "2", "3", "k">>), InputText(<<"a", "#">>),
     InputText(<<"#", "k">>), InputText(<<"%">>)}

\* A body that parses to an object, with its summonerInput.
JsonObject(input) == [json |-> "object", summonerInput |-> input]

\* The bodies a request arrives with: an object, the JSON text null, or text
\* that request.json() cannot parse.
RequestBodies ==
    {JsonObject(input) : input \in Inputs}
    \cup {[json |-> "null"], [json |-> "unparsable"]}

\* tagLine || 'KR1'
TagLineOrDefault(tagLine) == IF tagLine = <<>> THEN <<"K", "R", "1">> ELSE tagLine

\* fetchAccountData(`${gameName}#${tagLine}`): the format check, then the
\* account lookup.
fetchAccountData(frame, gameName, tagLine) ==
    IF gameName = <<>> \/ tagLine = <<>>
    THEN Catch(frame, PlainError("Invalid Riot ID format"))
    ELSE Goto(frame, "account", Request("account", <<gameName, tagLine>>))

\* POST from the decoded name to the account lookup.
LookupAccount(frame, decodedName) ==
    IF Includes(decodedName, "#")
    THEN fetchAccountData(frame, Split(decodedName, "#")[1],
                          TagLineOrDefault(Split(decodedName, "#")[2]))
    ELSE Goto(frame, "account", Request("summoner-by-name", decodedName))

\* POST once the 1 s delay is over.
AfterDelay(frame, input) ==
    IF decodeURIComponent(input.text).threw
    THEN Catch(frame, decodeURIComponent(input.text))
    ELSE LookupAccount(frame, decodeURIComponent(input.text).value)

\* A slip: an empty string passes the validation.
ValidateLenient(frame, body) ==
    IF body.json = "unparsable"
    THEN Catch(frame, PlainError("Unexpected token in JSON"))
    ELSE IF body.json = "null"
    THEN Catch(frame, PlainError("Cannot destructure property of null"))
    ELSE IF ~body.summonerInput.present
    THEN Respond(frame, 400, [error |-> "Summoner input is required"])
    ELSE [frame EXCEPT !.pc = "delay"]

\* POST up to its first timer: request.json(), the destructuring of the
\* body, and if (!summonerInput) return 400.
Validate(frame, body) ==
    IF body.json = "unparsable"
    THEN Catch(frame, PlainError("Unexpected token in JSON"))
    ELSE IF body.json = "null"
    THEN Catch(frame, PlainError("Cannot destructure property of null"))
    ELSE IF ~body.summonerInput.present \/ body.summonerInput.text = <<>>
    THEN Respond(frame, 400, [error |-> "Summoner input is required"])
    ELSE [frame EXCEPT !.pc = "delay"]

\* The code that runs when the awaited call of the frame's site settles.
Continuation(frame, result) ==
    CASE frame.pc = "account" -> AfterAccount(frame, result)
      [] frame.pc = "summoner" -> AfterSummoner(frame, result)
      [] frame.pc = "rankSummoner" -> AfterRankSummoner(frame, result)
      [] frame.pc = "league" -> AfterLeague(frame, result)
      [] frame.pc = "estHistory" -> AfterEstHistory(frame, result)
      [] frame.pc = "estFirstMatch" -> AfterFirstMatch(frame, result)
      [] frame.pc = "estLeague" -> AfterEstLeague(frame, result)
      [] frame.pc = "batchFetch" -> AfterMatchDetails(frame, result)
      [] OTHER -> AfterHistory(frame, result)

\* The await points at which an upstream request is about to be issued.
CallSites ==
    {"account", "summoner", "rankSummoner", "league", "estHistory",
     "estFirstMatch", "estLeague", "batchFetch", "history"}

\* The frame of a call that has not started.
NewFrame(entry, summonerId, puuid, matchIds) ==
    [entry |-> entry, pc |-> "start", request |-> Null, puuid |-> puuid,
     summonerId |-> summonerId, rankData |-> Null, estIds |-> <<>>,
     batchIds |-> matchIds, i |-> 0, results |-> <<>>, caller |-> "",
     matchDetails |-> <<>>, responses |-> <<>>, returned |-> Null]

\* What the log keeps of a settled call.
OutcomeOf(result) == IF result.threw THEN "failed" ELSE "ok"

\* The upstream answered the call with HTTP 429.
RateLimited(answer) == answer.kind = "response" /\ answer.status = 429

Sent(request) == [event |-> "sent", request |-> request]

Settled(request, outcome) ==
    [event |-> "settled", request |-> request, outcome |-> outcome]

Timer(ms) == [event |-> "timer", ms |-> ms]

\* The data client and the route are idle while the analyzer is exercised
\* on its own.
ClientIdle ==
    /\ apiKey = TRUE
    /\ requestBody = JsonObject(Missing)
    /\ upstream = "anonymous"
    /\ call = NewFrame("", "", "", <<>>)
    /\ inflight = <<>>
    /\ settled = Null
    /\ log = <<>>
    /\ throttled = FALSE

\* No function is being applied on its own.
CalcIdle == sample = Null /\ computed = Null

\* ------------------------------------------------------------- state machine

Init ==
    /\ recentMatches = <<>>
    /\ rankData = Null
    /\ performanceMetrics = Null
    /\ analysis = Null
    /\ pc = "collect"
    /\ ClientIdle
    /\ CalcIdle

\* One more match detail joins the list the request will analyse.
AddMatch(match) ==
    /\ pc = "collect"
    /\ Len(recentMatches) < MaxMatches
    /\ recentMatches' = Append(recentMatches, match)
    /\ UNCHANGED <<rankData, performanceMetrics, analysis, pc>>
    /\ UNCHANGED clientVars
    /\ UNCHANGED calcVars

\* analyzePotential(summonerInput, rank, recentMatches, puuid) is called and
\* returns.
Analyze(rank) ==
    /\ pc = "collect"
    /\ LET out == analyzePotential(rank, recentMatches, summonerPuuid)
       IN  /\ performanceMetrics' = out.metrics
           /\ analysis' = out.analysis
    /\ rankData' = rank
    /\ pc' = "done"
    /\ UNCHANGED recentMatches
    /\ UNCHANGED clientVars
    /\ UNCHANGED calcVars

\* The response is sent; nothing of the request outlives it.
NewRequest ==
    /\ pc = "done"
    /\ recentMatches' = <<>>
    /\ rankData' = Null
    /\ performanceMetrics' = Null
    /\ analysis' = Null
    /\ pc' = "collect"
    /\ UNCHANGED clientVars
    /\ UNCHANGED calcVars

Next ==
    \/ \E match \in MatchInputs : AddMatch(match)
    \/ \E rank \in RankInputs : Analyze(rank)
    \/ NewRequest

Spec == Init /\ [][Next]_vars

\* ------------------------------------------------- state machine: one request

\* A request arrives at POST, or an exported function of the data client is
\* called on its own.
HandlerInit ==
    /\ recentMatches = <<>>
    /\ rankData = Null
    /\ performanceMetrics = Null
    /\ analysis = Null
    /\ pc = "handler"
    /\ apiKey \in BOOLEAN
    /\ upstream \in Worlds
    /\ \/ /\ requestBody \in RequestBodies
          /\ call = NewFrame("POST", "", "", <<>>)
       \/ /\ requestBody = JsonObject(Missing)
          /\ \E summonerId \in {"", UpstreamSummonerId} :
                 \E puuid \in {"", summonerPuuid} :
                     call = NewFrame("fetchRankData", summonerId, puuid, <<>>)
       \/ /\ requestBody = JsonObject(Missing)
          /\ \E matchIds \in MatchIdBodies :
                 call = NewFrame("fetchMultipleMatchDetails", "", "", matchIds)
    /\ inflight = <<>>
    /\ settled = Null
    /\ log = <<>>
    /\ throttled = FALSE
    /\ CalcIdle

\* POST(request) runs to its first await.
CallPOST ==
    /\ call.pc = "start" /\ call.entry = "POST"
    /\ call' = Validate(call, requestBody)
    /\ UNCHANGED <<inflight, settled, log>>
    /\ UNCHANGED <<apiKey, requestBody, upstream, throttled>>
    /\ UNCHANGED analyzerVars
    /\ UNCHANGED calcVars

\* fetchRankData(summonerId, puuid) is called from outside the route.
CallFetchRankData ==
    /\ call.pc = "start" /\ call.entry = "fetchRankData"
    /\ call' = fetchRankData(call, call.summonerId)
    /\ UNCHANGED <<inflight, settled, log>>
    /\ UNCHANGED <<apiKey, requestBody, upstream, throttled>>
    /\ UNCHANGED analyzerVars
    /\ UNCHANGED calcVars

\* fetchMultipleMatchDetails(matchIds) is called from outside the route.
CallFetchMultipleMatchDetails ==
    /\ call.pc = "start" /\ call.entry = "fetchMultipleMatchDetails"
    /\ call' = StartBatch(call, call.batchIds, "outside")
    /\ UNCHANGED <<inflight, settled, log>>
    /\ UNCHANGED <<apiKey, requestBody, upstream, throttled>>
    /\ UNCHANGED analyzerVars
    /\ UNCHANGED calcVars

\* The 1 s timer of POST fires.
DelayElapsed ==
    /\ call.pc = "delay"
    /\ log' = Append(log, Timer(1000))
    /\ call' = AfterDelay(call, requestBody.summonerInput)
    /\ UNCHANGED <<inflight, settled>>
    /\ UNCHANGED <<apiKey, requestBody, upstream, throttled>>
    /\ UNCHANGED analyzerVars
    /\ UNCHANGED calcVars

\* The 3 s timer of fetchMultipleMatchDetails fires.
PauseElapsed ==
    /\ call.pc = "batchPause"
    /\ log' = Append(log, Timer(3000))
    /\ call' = AfterPause(call)
    /\ UNCHANGED <<inflight, settled>>
    /\ UNCHANGED <<apiKey, requestBody, upstream, throttled>>
    /\ UNCHANGED analyzerVars
    /\ UNCHANGED calcVars

\* A slip: the request is sent without awaiting the one in flight.
SendEager ==
    /\ call.pc \in CallSites /\ settled = Null /\ Len(inflight) < 2
    /\ IF apiKey
       THEN /\ inflight' = Append(inflight, call.request)
            /\ log' = Append(log, Sent(call.request))
            /\ UNCHANGED settled
       ELSE /\ settled' = [request |-> call.request, answer |-> Null,
                           result |-> makeApiRequest(apiKey, Null)]
            /\ log' = Append(log, Settled(call.request,
                                          OutcomeOf(settled'.result)))
            /\ UNCHANGED inflight
    /\ UNCHANGED call
    /\ UNCHANGED <<apiKey, requestBody, upstream, throttled>>
    /\ UNCHANGED analyzerVars
    /\ UNCHANGED calcVars

\* makeApiRequest is entered at the frame's call site: without a key it
\* throws, with one it calls fetch.
Send ==
    /\ call.pc \in CallSites /\ inflight = <<>> /\ settled = Null
    /\ IF apiKey
       THEN /\ inflight' = Append(inflight, call.request)
            /\ log' = Append(log, Sent(call.request))
            /\ UNCHANGED settled
       ELSE /\ settled' = [request |-> call.request, answer |-> Null,
                           result |-> makeApiRequest(apiKey, Null)]
            /\ log' = Append(log, Settled(call.request,
                                          OutcomeOf(settled'.result)))
            /\ UNCHANGED inflight
    /\ UNCHANGED call
    /\ UNCHANGED <<apiKey, requestBody, upstream, throttled>>
    /\ UNCHANGED analyzerVars
    /\ UNCHANGED calcVars

\* fetch comes back and makeApiRequest settles.
Receive(answer) ==
    /\ inflight /= <<>>
    /\ settled' = [request |-> inflight[1], answer |-> answer,
                   result |-> makeApiRequest(apiKey, answer)]
    /\ log' = Append(log, Settled(inflight[1], OutcomeOf(settled'.result)))
    /\ inflight' = Tail(inflight)
    /\ throttled' = (throttled \/ RateLimited(answer))
    /\ UNCHANGED call
    /\ UNCHANGED <<apiKey, requestBody, upstream>>
    /\ UNCHANGED analyzerVars
    /\ UNCHANGED calcVars

\* The awaiting code resumes with the settled call.
Resume ==
    /\ settled /= Null
    /\ call' = Continuation(call, settled.result)
    /\ settled' = Null
    /\ UNCHANGED <<inflight, log>>
    /\ UNCHANGED <<apiKey, requestBody, upstream, throttled>>
    /\ UNCHANGED analyzerVars
    /\ UNCHANGED calcVars

HandlerNext ==
    \/ CallPOST
    \/ CallFetchRankData
    \/ CallFetchMultipleMatchDetails
    \/ DelayElapsed
    \/ PauseElapsed
    \/ Send
    \/ /\ inflight /= <<>>
       /\ \E answer \in Answers(upstream, inflight[1]) : Receive(answer)
    \/ Resume

HandlerSpec == HandlerInit /\ [][HandlerNext]_vars

\* ------------------------------------- state machine: one batch of match ids

\* fetchMultipleMatchDetails(matchIds) is called on its own.
BatchInit ==
    /\ HandlerInit
    /\ call.entry = "fetchMultipleMatchDetails"

BatchNext ==
    \/ CallFetchMultipleMatchDetails
    \/ PauseElapsed
    \/ Send
    \/ /\ inflight /= <<>>
       /\ \E answer \in Answers(upstream, inflight[1]) : Receive(answer)
    \/ Resume

\* Every issued request settles, every timer fires and the awaiting code
\* is resumed.
BatchSpec == BatchInit /\ [][BatchNext]_vars /\ WF_vars(BatchNext)

\* -------------------------------------------------------------------- claims

Returned == pc = "done"

\* The match holds a record of the analysed player.
HasPlayer(match) ==
    \E i \in 1..Len(match.info.participants) :
        match.info.participants[i].puuid = summonerPuuid

\* The matches of the request that hold the player's record.
MatchedGames == SelectSeq(recentMatches, HasPlayer)

InRange(a, lo, hi) == IsFinite(a) /\ Ge(a, Num(lo)) /\ Le(a, Num(hi))

\* C1: every analysis that analyzePotential returns carries a potentialScore
\* that is a whole number between 0 and 100.
C1_ScoreIsIntegerInRange ==
    Returned =>
        /\ IsInteger(analysis.potentialScore)
        /\ InRange(analysis.potentialScore, 0, 100)

\* C1 witness: a match-only analysis whose bonuses add up to more than 100
\* and whose score is 100.
C1_Witness ==
    /\ Returned
    /\ rankData = Null
    /\ Len(MatchedGames) > 0
    /\ Ge(performanceMetrics.avgKDA, Num(3))
    /\ Ge(performanceMetrics.recentWinRate, Num(70))
    /\ Ge(performanceMetrics.avgCSPerMinute, Num(8))
    /\ analysis.potentialScore = Num(100)

\* The claim's bonus tables, for the averages of the matched records and the
\* returned win rate.
C2_k == LET a == performanceMetrics.avgKDA
        IN  IF Ge(a, Num(3)) THEN 25 ELSE IF Ge(a, Num(2)) THEN 15
            ELSE IF Ge(a, Rat(15, 10)) THEN 10 ELSE IF Ge(a, Num(1)) THEN 5
            ELSE 0

C2_w == LET a == analysis.winRate
        IN  IF Ge(a, Num(70)) THEN 25 ELSE IF Ge(a, Num(60)) THEN 20
            ELSE IF Ge(a, Num(55)) THEN 15 ELSE IF Ge(a, Num(50)) THEN 10
            ELSE 0

C2_c == LET a == performanceMetrics.avgCSPerMinute
        IN  IF Ge(a, Num(8)) THEN 15 ELSE IF Ge(a, Rat(65, 10)) THEN 10
            ELSE IF Ge(a, Num(5)) THEN 5 ELSE 0

C2_v == LET a == performanceMetrics.avgVisionScorePerMinute
        IN  IF Ge(a, Num(2)) THEN 10 ELSE IF Ge(a, Rat(15, 10)) THEN 5 ELSE 0

C2_Sum == 50 + C2_k + C2_w + C2_c + C2_v

C2_Example ==
    /\ performanceMetrics.avgKDA = Rat(35, 10)
    /\ performanceMetrics.avgCSPerMinute = Num(9)
    /\ analysis.winRate = Num(75)
    /\ performanceMetrics.avgVisionScorePerMinute = Rat(25, 10)

C3_RecentWinRate ==
    LET won(m) == \E i \in 1..Len(m.info.participants) :
                      /\ m.info.participants[i].puuid = summonerPuuid
                      /\ m.info.participants[i].win
    IN  IF Len(MatchedGames) = 0 THEN Num(50)
        ELSE Rat(100 * Len(SelectSeq(MatchedGames, won)), Len(MatchedGames))

\* The claim's sum in hundredths: 30, 25, 15, 15, 10 and 5 percent.
C3_Hundredths ==
    LET m == performanceMetrics
    IN  Add(Add(Add(Num(30 * TierBaseScore(rankData.tier)),
                    Mul(Num(25), MathMin(Num(100), Mul(m.avgKDA, Num(25))))),
                Add(Mul(Num(15), MathMin(Num(100), Mul(m.avgCSPerMinute, Num(12)))),
                    Mul(Num(15),
                        MathMin(Num(100),
                                Mul(m.avgVisionScorePerMinute, Num(40)))))),
            Add(Mul(Num(10), C3_RecentWinRate), Mul(Num(5), m.consistency)))

C3_Clamped ==
    LET x == Div(C3_Hundredths, Num(100))
    IN  IF Lt(x, Num(0)) THEN Num(0) ELSE IF Gt(x, Num(100)) THEN Num(100) ELSE x

C3_Example ==
    /\ rankData.tier = "GOLD"
    /\ performanceMetrics.avgKDA = Num(1)
    /\ performanceMetrics.avgCSPerMinute = Num(5)
    /\ performanceMetrics.avgVisionScorePerMinute = Num(1)
    /\ performanceMetrics.recentWinRate = Num(50)
    /\ performanceMetrics.consistency = Num(50)

\* C3: with a rank entry the score is the weighted sum of tier base, KDA, CS,
\* vision, recent win rate (of the supplied matches, not the season record)
\* and consistency, clamped to [0, 100] and rounded; GOLD with the default
\* metrics gives 42.
C3_RankedScoreFormula ==
    (Returned /\ rankData /= Null) =>
        /\ analysis.potentialScore = MathRound(C3_Clamped)
        /\ C3_Example => analysis.potentialScore = Num(42)

\* C3 witness: GOLD analysed over the default metrics.
C3_Witness ==
    /\ Returned
    /\ rankData /= Null
    /\ C3_Example
    /\ analysis.potentialScore = Num(42)

\* The rule of determineTrend, on the metrics of the analysis.
C4_Rule(winRate, kda) ==
    IF Gt(winRate, Num(60)) /\ Gt(kda, Num(2)) THEN "ascending"
    ELSE IF Lt(winRate, Num(45)) /\ Lt(kda, Rat(15, 10)) THEN "descending"
    ELSE "stable"

\* C4 as claimed: in every analysis, with or without a rank entry, the trend
\* follows the recentWinRate > 60 and avgKDA > 2.0 / < 45 and < 1.5 rule.
C4_TrendRuleEverywhere ==
    Returned =>
        IF performanceMetrics = Null THEN analysis.trend = "stable"
        ELSE analysis.trend = C4_Rule(performanceMetrics.recentWinRate,
                                      performanceMetrics.avgKDA)

\* C4: with a rank entry the trend is ascending iff recentWinRate > 60 and
\* avgKDA > 2.0, descending iff recentWinRate < 45 and avgKDA < 1.5, else
\* stable (so 60 with 2.0 is stable); without one it is stable for an empty
\* match list and otherwise ascending iff the returned winRate >= 60,
\* descending iff it is <= 40, else stable.
C4_TrendRuleByPath ==
    Returned =>
        IF rankData /= Null
        THEN /\ analysis.trend = C4_Rule(performanceMetrics.recentWinRate,
                                         performanceMetrics.avgKDA)
             /\ (performanceMetrics.recentWinRate = Num(60)
                 /\ performanceMetrics.avgKDA = Num(2))
                    => analysis.trend = "stable"
        ELSE IF Len(recentMatches) = 0 THEN analysis.trend = "stable"
        ELSE /\ analysis.trend = "ascending" <=> Ge(analysis.winRate, Num(60))
             /\ analysis.trend = "descending" <=> Le(analysis.winRate, Num(40))
             /\ analysis.trend \in {"ascending", "descending", "stable"}

\* C4 witness: a ranked analysis on the boundary, 60% recent wins at KDA 2.0.
C4_Witness ==
    /\ Returned
    /\ rankData /= Null
    /\ performanceMetrics.recentWinRate = Num(60)
    /\ performanceMetrics.avgKDA = Num(2)
    /\ analysis.trend = "stable"

\* C5: in every returned analysis the strengths list and the improvements
\* list each hold between 1 and 4 entries.
C5_ListsHoldOneToFour ==
    Returned =>
        /\ Len(analysis.strengths) \in 1..4
        /\ Len(analysis.improvements) \in 1..4

\* C5 witness: a ranked analysis in which more than four strength predicates
\* are satisfied and four strengths are returned.
C5_Witness ==
    /\ Returned
    /\ rankData /= Null
    /\ Gt(performanceMetrics.avgKDA, Rat(25, 10))
    /\ Gt(performanceMetrics.avgCSPerMinute, Rat(65, 10))
    /\ Gt(performanceMetrics.avgVisionScorePerMinute, Num(2))
    /\ Gt(performanceMetrics.recentWinRate, Num(65))
    /\ Gt(performanceMetrics.consistency, Num(75))
    /\ Len(analysis.strengths) = 4
\* calculatePerformanceMetrics was called in the analysis.
MetricsComputed == Returned /\ performanceMetrics /= Null

\* The numeric fields of a metrics record.
MetricFields ==
    {"recentWinRate", "avgKDA", "avgKills", "avgDeaths", "avgAssists",
     "avgCSPerMinute", "avgVisionScorePerMinute", "avgDamagePerMinute",
     "objectiveParticipation", "consistency", "gameImpact"}

\* C6: when no match of the list (the empty list included) holds the player's
\* record, calculatePerformanceMetrics returns the fixed default record:
\* recentWinRate 50, avgKDA 1.0, avgCSPerMinute 5, avgVisionScorePerMinute 1,
\* consistency 50, gameImpact 50 and no performances; no field is the NaN a
\* division by zero matched records would leave.
C6_DefaultMetricsWhenUnmatched ==
    (MetricsComputed /\ Len(MatchedGames) = 0) =>
        /\ performanceMetrics.recentWinRate = Num(50)
        /\ performanceMetrics.avgKDA = Num(1)
        /\ performanceMetrics.avgCSPerMinute = Num(5)
        /\ performanceMetrics.avgVisionScorePerMinute = Num(1)
        /\ performanceMetrics.consistency = Num(50)
        /\ performanceMetrics.gameImpact = Num(50)
        /\ performanceMetrics.performances = <<>>
        /\ \A f \in MetricFields : IsFinite(performanceMetrics[f])

\* C6 witness: metrics computed over a non-empty list none of whose matches
\* holds the player's record.
C6_Witness ==
    /\ MetricsComputed
    /\ Len(recentMatches) > 1
    /\ Len(MatchedGames) = 0

\* C7 as claimed: without a rank entry and with a non-empty list in which no
\* match holds the player's record, the analysis is that of the default
\* metrics (win rate 50, KDA 1.0, 5 CS/min, 1 vision/min): winRate is the
\* defined number 50, the score is 50 + 5 + 10 + 5 + 0 = 70, the trend stable.
C7_UnmatchedDegradesToDefaults ==
    (Returned /\ rankData = Null /\ Len(recentMatches) > 0
        /\ Len(MatchedGames) = 0) =>
        /\ IsFinite(analysis.winRate)
        /\ analysis.winRate = Num(50)
        /\ analysis.potentialScore = Num(70)
        /\ analysis.trend = "stable"

\* The population variance of the values, from the definition.
C8_Variance(values) ==
    LET n == Len(values)
        total == SumSeq(values)
        dist(v) == Mul(Sub(Mul(v, Num(n)), total), Sub(Mul(v, Num(n)), total))
    IN  Div(SumSeq(Map(dist, values)), Num(n * n * n))

\* c is max(0, min(100, 100 - stddev * 20)) for that variance, the root
\* taken to the step 1/SqrtScale.
C8_IsConsistencyOf(c, variance) ==
    LET dev == Div(Sub(Num(100), c), Num(20))
        next == Add(dev, Rat(1, SqrtScale))
    IN  /\ InRange(c, 0, 100)
        /\ IF Ge(variance, Num(25)) THEN c = Num(0)
           ELSE /\ Le(Mul(dev, dev), variance)
                /\ Gt(Mul(next, next), variance)

C8_Same(values) == \A i \in 1..Len(values) : values[i] = values[1]

\* C8 as claimed: the consistency is the default 50 for 0 or 1 matched
\* records and the mean of the three per-metric values from 2 matched records
\* on, so two identical records give 100.
C8_ConsistencyFromTwoRecords ==
    MetricsComputed =>
        LET perfs == performanceMetrics.performances
        IN  /\ Len(perfs) <= 1 => performanceMetrics.consistency = Num(50)
            /\ Len(perfs) >= 2 =>
                   performanceMetrics.consistency = MeanConsistency(perfs)

\* C8: the consistency is the default 50 for fewer than 3 matched records;
\* from 3 matched records on it is the mean of max(0, min(100, 100 -
\* stddev * 20)) over KDA, damage/min and vision/min (identical records give
\* 100); it always lies in [0, 100].
C8_ConsistencyFromThreeRecords ==
    MetricsComputed =>
        LET perfs == performanceMetrics.performances
            kdas == Map(Kda, perfs)
            damages == Map(DamagePerMinute, perfs)
            visions == Map(VisionPerMinute, perfs)
            k == calculateMetricConsistency(kdas)
            d == calculateMetricConsistency(damages)
            v == calculateMetricConsistency(visions)
        IN  /\ InRange(performanceMetrics.consistency, 0, 100)
            /\ Len(perfs) < 3 => performanceMetrics.consistency = Num(50)
            /\ Len(perfs) >= 3 =>
                   /\ C8_IsConsistencyOf(k, C8_Variance(kdas))
                   /\ C8_IsConsistencyOf(d, C8_Variance(damages))
                   /\ C8_IsConsistencyOf(v, C8_Variance(visions))
                   /\ Mul(performanceMetrics.consistency, Num(3))
                          = Add(k, Add(d, v))
                   /\ (C8_Same(kdas) /\ C8_Same(damages) /\ C8_Same(visions))
                          => performanceMetrics.consistency = Num(100)

\* C8 witness: three or more matched records whose deviations give a
\* consistency strictly between 0 and 100 other than the default.
C8_Witness ==
    /\ MetricsComputed
    /\ Len(performanceMetrics.performances) >= 3
    /\ Gt(performanceMetrics.consistency, Num(0))
    /\ Lt(performanceMetrics.consistency, Num(100))
    /\ performanceMetrics.consistency /= Num(50)

\* The player's record in a match that holds one.
C10_Record(match) ==
    match.info.participants[
        CHOOSE i \in 1..Len(match.info.participants) :
            match.info.participants[i].puuid = summonerPuuid]

C10_Minutes(match) == Rat(match.info.gameDuration, 60)

C10_Kda(match) ==
    LET p == C10_Record(match)
    IN  Rat(p.kills + p.assists, IF p.deaths = 0 THEN 1 ELSE p.deaths)

C10_Cs(match) ==
    LET p == C10_Record(match)
    IN  Div(Num(p.totalMinionsKilled + p.neutralMinionsKilled),
            C10_Minutes(match))

C10_Vision(match) ==
    Div(Num(C10_Record(match).visionScore), C10_Minutes(match))

C10_Win(match) == IF C10_Record(match).win THEN Num(100) ELSE Num(0)

\* The four aggregates of a metrics record.
C10_Aggregates(metrics) ==
    <<metrics.recentWinRate, metrics.avgKDA, metrics.avgCSPerMinute,
      metrics.avgVisionScorePerMinute>>

\* C10: matches without the player's record are skipped: the aggregates of
\* the list are those of the list without such matches, each the arithmetic
\* mean over the matched records.
C10_UnmatchedGamesAreSkipped ==
    MetricsComputed =>
        /\ C10_Aggregates(performanceMetrics) =
               C10_Aggregates(calculatePerformanceMetrics(MatchedGames,
                                                          summonerPuuid))
        /\ Len(MatchedGames) > 0 =>
               LET n == Num(Len(MatchedGames))
               IN  C10_Aggregates(performanceMetrics) =
                       <<Div(SumSeq(Map(C10_Win, MatchedGames)), n),
                         Div(SumSeq(Map(C10_Kda, MatchedGames)), n),
                         Div(SumSeq(Map(C10_Cs, MatchedGames)), n),
                         Div(SumSeq(Map(C10_Vision, MatchedGames)), n)>>

\* C10 witness: metrics computed over a list that mixes matches with and
\* without the player's record.
C10_Witness ==
    /\ MetricsComputed
    /\ Len(MatchedGames) >= 2
    /\ Len(recentMatches) >= Len(MatchedGames) + 2

\* ------------------------------------------------- claims about one request

\* The request went to POST and POST has answered it.
Responded == call.entry = "POST" /\ call.pc = "responded"

\* Some call to the endpoint settled with the outcome.
LogHas(endpoint, outcome) ==
    \E i \in 1..Len(log) :
        /\ log[i].event = "settled"
        /\ log[i].request.endpoint = endpoint
        /\ log[i].outcome = outcome

\* The route's own match-id lookup (count 20) succeeded.
RouteHistoryOk ==
    \E i \in 1..Len(log) :
        /\ log[i].event = "settled"
        /\ log[i].request.endpoint = "match-ids"
        /\ log[i].request.arg[2] = 20
        /\ log[i].outcome = "ok"

\* summonerInput is missing or empty.
C11_NoInput ==
    \/ requestBody.json /= "object"
    \/ ~requestBody.summonerInput.present
    \/ requestBody.summonerInput.text = <<>>

\* The body is a JSON object whose summonerInput is missing or empty.
C11_ObjectWithoutInput ==
    /\ requestBody.json = "object"
    /\ (~requestBody.summonerInput.present
        \/ requestBody.summonerInput.text = <<>>)

C11_WellFormed(response) ==
    \/ /\ response.status = 200
       /\ DOMAIN response.body = {"success", "data"}
       /\ response.body.success = TRUE
       /\ response.body.data /= Null
    \/ /\ response.status \in {400, 429, 500}
       /\ DOMAIN response.body = {"error"}

\* At most one response, sent exactly when POST stops; its shape; 400
\* exactly in the given case; 200 only after the three lookups succeeded.
C11_Contract(badRequest) ==
    call.entry = "POST" =>
        /\ Len(call.responses) <= 1
        /\ (call.pc = "responded") <=> (Len(call.responses) = 1)
        /\ call.pc \in {"start", "delay", "batchPause", "responded"} \cup CallSites
        /\ Responded =>
              /\ C11_WellFormed(call.responses[1])
              /\ (call.responses[1].status = 400) <=> badRequest
              /\ call.responses[1].status = 200 =>
                    /\ LogHas("account", "ok") \/ LogHas("summoner-by-name", "ok")
                    /\ LogHas("summoner", "ok")
                    /\ RouteHistoryOk

C12_RetryLater == [status |-> 429, body |-> [error |-> "Rate limit exceeded"]]

\* C12 as stated: once any upstream call of the request has been answered
\* with HTTP 429, the response is the 429 retry-later response.
C12_Any429Surfaces ==
    Responded /\ throttled => call.responses = <<C12_RetryLater>>

\* The call that has just settled is one POST awaits itself (the account
\* lookup, fetchSummonerByPuuid, fetchMatchHistory) and was answered with 429.
C12_RouteCallThrottled ==
    /\ settled /= Null
    /\ call.entry = "POST"
    /\ call.pc \in {"account", "summoner", "history"}
    /\ settled.answer /= Null
    /\ RateLimited(settled.answer)

\* C12 amended: when the account lookup, the route's summoner lookup or the
\* route's match-id lookup is answered with 429, POST answers with the 429
\* retry-later response at once, and a 429 response is sent in no other step
\* (a 429 answer to a call inside fetchRankData or to a match detail is
\* absorbed there).
C12_RouteLevel429Surfaces ==
    [][/\ C12_RouteCallThrottled => call'.responses = <<C12_RetryLater>>
       /\ (call'.responses /= call.responses
           /\ call'.responses[1].status = 429) => C12_RouteCallThrottled]_vars

\* A request answered with 429.
C12_Witness ==
    /\ Responded
    /\ throttled
    /\ call.responses = <<C12_RetryLater>>
    /\ LogHas("summoner", "ok")

\* fetch has come back for the call that has just settled.
C13_Answered == settled /= Null /\ settled.answer /= Null

C13_IsRiotApiError(result, status) ==
    result.threw /\ result.name = "RiotApiError" /\ result.status = status

\* C13: once fetch has come back, makeApiRequest throws a RiotApiError with
\* the upstream status for every non-OK response, a RiotApiError with status
\* 500 for a network failure, and returns a value only for an OK response,
\* the value being the parsed body.
C13_StatusPreserved ==
    C13_Answered =>
        /\ (settled.answer.kind = "response"
            /\ ~ResponseOk(settled.answer.status)) =>
               C13_IsRiotApiError(settled.result, settled.answer.status)
        /\ settled.answer.kind = "rejected" =>
               C13_IsRiotApiError(settled.result, 500)
        /\ ~settled.result.threw =>
               /\ settled.answer.kind = "response"
               /\ ResponseOk(settled.answer.status)
               /\ settled.result.value = settled.answer.body

\* A league lookup answered with 403 has settled as a RiotApiError of 403.
C13_Witness ==
    /\ C13_Answered
    /\ settled.request.endpoint = "league"
    /\ settled.answer.kind = "response"
    /\ settled.answer.status = 403
    /\ C13_IsRiotApiError(settled.result, 403)

\* An HTTP request was sent.
C14_SomethingSent == \E i \in 1..Len(log) : log[i].event = "sent"

\* A call to makeApiRequest was made and has failed.
C14_SomeCallFailed ==
    \E i \in 1..Len(log) : log[i].event = "settled" /\ log[i].outcome = "failed"

\* C14: without an API key no HTTP request is ever sent, every call attempt
\* settles as the status-500 configuration error, a request to POST is
\* answered with status 500 unless it is answered 400 before any call, and no
\* function of the data client returns normally after one of its calls has
\* failed this way.
C14_MissingKeySurfacesEverywhere ==
    ~apiKey =>
        /\ ~C14_SomethingSent /\ inflight = <<>>
        /\ settled /= Null =>
              settled.result = RiotApiError("Riot API key is not configured", 500)
        /\ (Responded /\ C14_SomeCallFailed) => call.responses[1].status = 500
        /\ call.pc = "returned" => ~C14_SomeCallFailed

\* -------------------------------------------- claims about one batch of ids

\* fetchMultipleMatchDetails, called on its own, has returned.
BatchReturned ==
    call.entry = "fetchMultipleMatchDetails" /\ call.pc = "returned"

\* The fetch of the match id succeeded.
Fetched(matchId) ==
    \E i \in 1..Len(log) :
        /\ log[i].event = "settled"
        /\ log[i].request.endpoint = "match"
        /\ log[i].request.arg = matchId
        /\ log[i].outcome = "ok"

\* The fetch of the match id was attempted and has settled.
Attempted(matchId) ==
    \E i \in 1..Len(log) :
        /\ log[i].event = "settled"
        /\ log[i].request.endpoint = "match"
        /\ log[i].request.arg = matchId

\* The stored matches of the ids whose fetch succeeded, in input order.
C15_Expected ==
    LET body(matchId) == MatchBody(upstream, matchId)
    IN  Map(body, SelectSeq(call.batchIds, Fetched))

\* C15: fetchMultipleMatchDetails never ends other than by returning; when
\* it returns, the fetch of every id of the input has been attempted, and
\* what it returns is exactly the matches whose fetch succeeded, in the
\* order of their ids in the input, whatever the pattern of failures.
C15_BestEffortInOrder ==
    call.entry = "fetchMultipleMatchDetails" =>
        /\ call.pc \in {"start", "batchFetch", "batchPause", "returned"}
        /\ call.pc = "returned" =>
              /\ ~call.returned.threw
              /\ \A k \in 1..Len(call.batchIds) : Attempted(call.batchIds[k])
              /\ call.returned.value = C15_Expected

\* Three ids, the first fetch failed, the other two matches are returned.
C15_Witness ==
    /\ BatchReturned
    /\ Len(call.batchIds) = 3
    /\ ~Fetched(1)
    /\ call.returned.value = <<MatchBody(upstream, 2), MatchBody(upstream, 3)>>

\* The log entry records the end of a fetch attempt for a match.
MatchSettled(entry) ==
    entry.event = "settled" /\ entry.request.endpoint = "match"

\* The log entry records that a match-detail request was sent.
MatchSent(entry) == entry.event = "sent" /\ entry.request.endpoint = "match"

\* The 3 s pause was taken somewhere between the two log positions.
PausedBetween(i, j) ==
    \E k \in (i + 1)..(j - 1) : log[k] = Timer(3000)

\* C16: in a batch, between any two match-detail requests the 3 s pause is
\* taken, whether the earlier request succeeded or failed, and no pause
\* follows the last request.
C16_PauseBetweenRequests ==
    call.entry = "fetchMultipleMatchDetails" =>
        /\ \A i, j \in 1..Len(log) :
               (i < j /\ MatchSent(log[i]) /\ MatchSent(log[j]))
                   => PausedBetween(i, j)
        /\ call.pc = "returned" => (log = <<>> \/ log[Len(log)] /= Timer(3000))

\* The positions of the log at which a match-detail request was sent.
C17_SentAt == {i \in 1..Len(log) : MatchSent(log[i])}

\* The request sent at log position i has settled before position j.
C17_SettledBetween(i, j) ==
    \E k \in (i + 1)..(j - 1) :
        log[k].event = "settled" /\ log[k].request = log[i].request

\* C17: in a batch at most one match-detail request is in flight; a request
\* is sent only after every request sent before it has settled; and the
\* n-th request sent is the one for the n-th id of the input.
C17_OneAtATimeInOrder ==
    call.entry = "fetchMultipleMatchDetails" =>
        /\ Len(inflight) <= 1
        /\ \A i, j \in C17_SentAt : i < j => C17_SettledBetween(i, j)
        /\ \A i \in C17_SentAt :
               log[i].request.arg
                   = call.batchIds[Cardinality({j \in C17_SentAt : j <= i})]

\* The third request of a batch is in flight after a failure and a success.
C17_Witness ==
    /\ call.entry = "fetchMultipleMatchDetails"
    /\ inflight = <<Request("match", 3)>>
    /\ ~Fetched(1)
    /\ Fetched(2)

\* The log positions at which a fetch attempt for the match id ended.
C18_AttemptsOf(matchId) ==
    {i \in 1..Len(log) : MatchSettled(log[i]) /\ log[i].request.arg = matchId}

\* The log positions at which a fetch attempt failed.
C18_Failed ==
    {i \in 1..Len(log) : MatchSettled(log[i]) /\ log[i].outcome = "failed"}

\* N attempts in all, one per id, and N minus the failed ones returned.
C18_Counts ==
    /\ Cardinality({i \in 1..Len(log) : MatchSettled(log[i])})
           = Len(call.batchIds)
    /\ \A k \in 1..Len(call.batchIds) :
           Cardinality(C18_AttemptsOf(call.batchIds[k])) = 1
    /\ Len(call.returned.value)
           = Len(call.batchIds) - Cardinality(C18_Failed)

\* C18: when every request settles and every timer fires, a batch over N
\* ids returns, and when it has returned there have been exactly N fetch
\* attempts, one per id, and it returns N minus the number of failed
\* attempts matches.
C18_TerminatesAfterNAttempts ==
    /\ <>BatchReturned
    /\ [](BatchReturned => C18_Counts)

\* A batch of three ids has returned one match after two failed attempts.
C18_Witness ==
    /\ BatchReturned
    /\ Len(call.batchIds) = 3
    /\ Cardinality(C18_Failed) = 2
    /\ Len(call.returned.value) = 1

\* --------------------------------------- claims about retries and the rank

\* The two requests are the same call: the endpoint and the argument.
SameCall(a, b) == a.endpoint = b.endpoint /\ a.arg = b.arg

\* C19: while one request to POST is handled, a call that has failed is not
\* sent again.
C19_NoCallIssuedAgainAfterFailure ==
    call.entry = "POST" =>
        \A i, j \in 1..Len(log) :
            (/\ i < j
             /\ log[i].event = "settled" /\ log[i].outcome = "failed"
             /\ log[j].event = "sent")
                => ~SameCall(log[i].request, log[j].request)

\* The running call is inside fetchRankData: at one of its own lookups or in
\* the estimation batch of extractRankFromMatches.
InRankLookup ==
    \/ call.pc \in {"rankSummoner", "league", "estHistory", "estFirstMatch",
                    "estLeague"}
    \/ /\ call.pc \in {"batchFetch", "batchPause"}
       /\ call.caller = "extractRankFromMatches"

\* What fetchRankData may hand back: null or an entry with a tier.
IsRankOrNull(value) == value = Null \/ "tier" \in DOMAIN value

\* C20: fetchRankData never throws. Whatever a lookup made inside it settles
\* with, the step that follows sends no response from POST and, called from
\* outside, returns only a rank entry or null; and the success response of a
\* request whose rank came back null carries the match-only analysis.
C20_RankLookupNeverFails ==
    [][/\ InRankLookup =>
            /\ call'.pc /= "responded"
            /\ call'.pc = "returned" =>
                   /\ ~call'.returned.threw
                   /\ IsRankOrNull(call'.returned.value)
            /\ call'.pc = "history" => IsRankOrNull(call'.rankData)
       /\ (/\ call.pc /= "responded"
           /\ call'.pc = "responded"
           /\ call'.responses[1].status = 200
           /\ call'.rankData = Null)
              => call'.responses[1].body.data
                     = analyzeByMatchDataOnly(call'.matchDetails,
                                              call'.puuid).analysis
      ]_vars

\* A request answered with the match-only analysis of at least one match
\* after a lookup inside fetchRankData had failed.
C20_Witness ==
    /\ Responded
    /\ call.responses[1].status = 200
    /\ call.rankData = Null
    /\ call.matchDetails /= <<>>
    /\ LogHas("league", "failed")

\* ------------------------------------------- claims about the fallback chain

\* fetchRankData was called from outside and has returned.
RankReturned == call.entry = "fetchRankData" /\ call.pc = "returned"

\* The positions of the log at which a call to the endpoint ended.
AttemptsAt(endpoint) ==
    {i \in 1..Len(log) : /\ log[i].event = "settled"
                         /\ log[i].request.endpoint = endpoint}

\* The league lookups made with a known summoner id: those that no match-id
\* lookup precedes.
LeagueByIdAt ==
    {i \in AttemptsAt("league") : \A j \in AttemptsAt("match-ids") : i < j}

\* C21: whenever fetchRankData, called with a puuid, returns null, the
\* estimation from recent matches has been tried.
C21_EstimationTriedBeforeNull ==
    (RankReturned /\ call.puuid /= "" /\ call.returned.value = Null)
        => AttemptsAt("match-ids") /= {}

\* C21 amended: the chain is ordered by how the summoner id is obtained. The
\* id is derived from the puuid before any league or match-id lookup; a league
\* lookup with a known id is final, so no estimation follows it and its
\* failure returns null; the estimation is tried only after a derivation that
\* gave no id, and always after a derivation that failed.
C21_ChainOrderedByIdAvailability ==
    call.entry = "fetchRankData" =>
        /\ \A i \in AttemptsAt("summoner") :
               \A j \in AttemptsAt("league") \cup AttemptsAt("match-ids") :
                   i < j
        /\ Cardinality(AttemptsAt("summoner")) <= 1
        /\ LeagueByIdAt /= {} => AttemptsAt("match-ids") = {}
        /\ AttemptsAt("match-ids") /= {} => AttemptsAt("summoner") /= {}
        /\ RankReturned =>
               /\ (\E i \in LeagueByIdAt : log[i].outcome = "failed")
                      => call.returned.value = Null
               /\ (\E i \in AttemptsAt("summoner") : log[i].outcome = "failed")
                      => AttemptsAt("match-ids") /= {}
               /\ (call.puuid /= "" /\ call.returned.value = Null)
                      => \/ \E i \in LeagueByIdAt : log[i].outcome = "failed"
                         \/ AttemptsAt("match-ids") /= {}

\* fetchRankData has returned null after its league lookup by a derived
\* summoner id failed.
C21_Witness ==
    /\ RankReturned
    /\ call.returned.value = Null
    /\ \E i \in AttemptsAt("summoner") : log[i].outcome = "ok"
    /\ \E i \in LeagueByIdAt : log[i].outcome = "failed"

\* ------------------------------------------------- the functions on their own
\* One pure function of the analyzer or of the rank estimate is applied to
\* sampled arguments: CalcInit draws the arguments, one action per function
\* applies it.

\* A participant record with the given kills, deaths and assists.
KdaParticipant(kills, deaths, assists) ==
    Profiled(Participant(summonerPuuid, TRUE, kills, deaths, assists, 150, 10,
                         30, 12000, "Ahri", "MIDDLE", 0, 0, 0))

KdaSamples ==
    {[kind |-> "participant", participant |-> KdaParticipant(k, d, a),
      gameDuration |-> 1200] : k \in 0..MaxStat, d \in 0..MaxStat,
                               a \in 0..MaxStat}

\* The three places that compute a KDA from one participant record:
\* calculatePerformanceMetrics (line 189), analyzePlayStyle (line 282) and
\* extractRankFromMatches (line 313).
ComputeKda ==
    /\ sample /= Null /\ sample.kind = "participant"
    /\ computed = Null
    /\ computed' =
           [analyzer |-> PerformanceOrNull(sample.participant,
                                           sample.gameDuration).kda,
            playStyle |-> ParticipantKda(sample.participant),
            estimator |-> PlayerStatOrNull(sample.participant,
                                           sample.gameDuration).kda]
    /\ UNCHANGED sample
    /\ UNCHANGED analyzerVars
    /\ UNCHANGED clientVars

\* The match lists whose metrics and play style a sampled text is written
\* for.
NarrativeMatchLists ==
    {<<>>, <<StarGame>>, <<FairGame>>, <<PoorGame>>,
     <<StarGame, FairGame, PoorGame>>}

Trends == {"ascending", "stable", "descending"}

NarrativeSamples ==
    {[kind |-> "narrative", score |-> score, trend |-> trend,
      matches |-> matches] :
        score \in 0..100, trend \in Trends, matches \in NarrativeMatchLists}

\* The one-line text of both paths for a score: generateDynamicOneLiner
\* (line 456) and generateMatchBasedAnalysis (line 130).
Narrate ==
    /\ sample /= Null /\ sample.kind = "narrative"
    /\ computed = Null
    /\ LET metrics == calculatePerformanceMetrics(sample.matches, summonerPuuid)
           playStyle == analyzePlayStyle(sample.matches, summonerPuuid)
       IN  computed' =
               [ranked |-> generateDynamicOneLiner(Num(sample.score),
                                                   sample.trend, metrics,
                                                   playStyle),
                matchOnly |-> generateMatchBasedAnalysis(Num(sample.score),
                                                         metrics.recentWinRate,
                                                         metrics.avgKDA,
                                                         metrics.avgCSPerMinute)]
    /\ UNCHANGED sample
    /\ UNCHANGED analyzerVars
    /\ UNCHANGED clientVars

\* Math.min(3, matchIds.length): the estimate reads at most three matches.
EstimatedMatches == 3

\* The player's record in a sampled match of 20 minutes: a summoner level and
\* a weak, a fair or a strong game.
EstimatorParticipant(level, game, win) ==
    [summonerLevel |-> level, goldEarned |-> 9000, summonerName |-> "a"]
    @@ CASE game = "weak" ->
                Participant(summonerPuuid, win, 1, 4, 1, 60, 0, 10, 4000,
                            "Teemo", "JUNGLE", 0, 0, 0)
         [] game = "fair" ->
                Participant(summonerPuuid, win, 4, 4, 4, 110, 10, 30, 10000,
                            "Garen", "TOP", 0, 0, 0)
         [] OTHER ->
                Participant(summonerPuuid, win, 8, 2, 4, 180, 20, 60, 20000,
                            "Ahri", "MIDDLE", 0, 0, 0)

\* The match details the estimate can be handed: the player's record, or a
\* match the player has no record in.
EstimatorMatches ==
    {MatchData(1200, <<Profiled(Bystander), EstimatorParticipant(level, game, win)>>) :
        level \in {30, 120, 300}, game \in {"weak", "fair", "strong"},
        win \in BOOLEAN}
    \cup {MatchData(1500, <<Profiled(Bystander)>>)}

EstimatorSamples ==
    {[kind |-> "matches", matches |-> matches] :
        matches \in UNION {[1..n -> EstimatorMatches] :
                              n \in 1..EstimatedMatches}}

\* The estimate of extractRankFromMatches (lines 271-446) from the match
\* details its batch returned.
EstimateRank ==
    /\ sample /= Null /\ sample.kind = "matches"
    /\ computed = Null
    /\ computed' =
           [avgStats |-> AvgStats(PlayerStats(sample.matches, summonerPuuid)),
            rankScore |->
                RankScore(AvgStats(PlayerStats(sample.matches, summonerPuuid))),
            entry |-> RankFromDetails(sample.matches, summonerPuuid)]
    /\ UNCHANGED sample
    /\ UNCHANGED analyzerVars
    /\ UNCHANGED clientVars

\* The tiers of the base-score table, lowest first, and two tier strings
\* outside it.
TierOrder ==
    <<"IRON", "BRONZE", "SILVER", "GOLD", "PLATINUM", "DIAMOND", "MASTER",
      "GRANDMASTER", "CHALLENGER">>

OtherTiers == {"UNRANKED", "EMERALD"}

\* The metrics a score is computed from: values below, at and above the
\* thresholds and caps of the two scorers.
ScoreSamples ==
    {[kind |-> "scores", tier |-> tier, avgKDA |-> kda, avgCSPerMinute |-> cs,
      avgVisionScorePerMinute |-> vision, recentWinRate |-> winRate,
      consistency |-> consistency] :
        tier \in {TierOrder[i] : i \in 1..Len(TierOrder)} \cup OtherTiers,
        kda \in {Num(0), Num(1), Rat(3, 2), Num(2), Num(3), Num(10)},
        cs \in {Num(0), Num(5), Rat(13, 2), Num(8), Num(20)},
        vision \in {Num(0), Rat(3, 2), Num(2), Num(5)},
        winRate \in {Num(0), Num(50), Num(55), Num(60), Num(70), Num(100)},
        consistency \in {Num(0), Num(100)}}

\* The two scorers on the sampled metrics: calculateWeightedPotentialScore
\* (lines 422-453) and the score of analyzeByMatchDataOnly (lines 87-111)
\* with its one-line text.
Score ==
    /\ sample /= Null /\ sample.kind = "scores"
    /\ computed = Null
    /\ computed' =
           [baseScore |-> TierBaseScore(sample.tier),
            weightedSum |->
                WeightedSum(Num(TierBaseScore(sample.tier)), sample.avgKDA,
                            sample.avgCSPerMinute,
                            sample.avgVisionScorePerMinute,
                            sample.recentWinRate, sample.consistency),
            potentialScore |->
                calculateWeightedPotentialScore(
                    RankEntry(sample.tier, "I", 0, 1, 1), sample, Null),
            matchOnlySum |->
                50 + KdaPoints(sample.avgKDA)
                + WinRatePoints(sample.recentWinRate)
                + CsPoints(sample.avgCSPerMinute)
                + VisionPoints(sample.avgVisionScorePerMinute),
            matchOnlyScore |->
                MatchOnlyScore(sample.avgKDA, sample.recentWinRate,
                               sample.avgCSPerMinute,
                               sample.avgVisionScorePerMinute),
            matchOnlyText |->
                generateMatchBasedAnalysis(
                    MatchOnlyScore(sample.avgKDA, sample.recentWinRate,
                                   sample.avgCSPerMinute,
                                   sample.avgVisionScorePerMinute),
                    sample.recentWinRate, sample.avgKDA,
                    sample.avgCSPerMinute)]
    /\ UNCHANGED sample
    /\ UNCHANGED analyzerVars
    /\ UNCHANGED clientVars

Samples ==
    KdaSamples \cup NarrativeSamples \cup EstimatorSamples \cup ScoreSamples

CalcInit ==
    /\ recentMatches = <<>>
    /\ rankData = Null
    /\ performanceMetrics = Null
    /\ analysis = Null
    /\ pc = "calc"
    /\ ClientIdle
    /\ sample \in Samples
    /\ computed = Null

CalcNext ==
    \/ ComputeKda
    \/ Narrate
    \/ EstimateRank
    \/ Score

CalcSpec == CalcInit /\ [][CalcNext]_vars

\* ------------------------------------------------ claims about the functions

\* The function applied to a sample of the given kind has returned.
Computed(kind) == sample /= Null /\ sample.kind = kind /\ computed /= Null

\* C22: the KDA of the metrics aggregator, of the play-style analysis and of
\* the rank estimate agree on every participant record: each is
\* (kills + assists) / deaths when deaths > 0 and kills + assists otherwise.
C22_KdaComputationsAgree ==
    Computed("participant") =>
        LET p == sample.participant
            expected == IF p.deaths > 0
                        THEN Rat(p.kills + p.assists, p.deaths)
                        ELSE Num(p.kills + p.assists)
        IN  /\ computed.analyzer = expected
            /\ computed.playStyle = expected
            /\ computed.estimator = expected

\* The three KDAs of a record without a death.
C22_Witness ==
    /\ Computed("participant")
    /\ sample.participant.deaths = 0
    /\ sample.participant.kills + sample.participant.assists > 0
    /\ computed.analyzer = computed.estimator

\* The strength templates in the order their predicates are tested.
C23_StrengthOrder ==
    <<"kda", "farming", "vision", "momentum", "consistency", "objectives",
      "champion pool", "main champion", "ranked win rate">>

\* The predicate of a strength template.
C23_StrengthHolds(name, metrics, playStyle, rank) ==
    CASE name = "kda" -> Gt(metrics.avgKDA, Rat(5, 2))
      [] name = "farming" -> Gt(metrics.avgCSPerMinute, Rat(13, 2))
      [] name = "vision" -> Gt(metrics.avgVisionScorePerMinute, Num(2))
      [] name = "momentum" -> Gt(metrics.recentWinRate, Num(65))
      [] name = "consistency" -> Gt(metrics.consistency, Num(75))
      [] name = "objectives" -> Gt(metrics.objectiveParticipation, Rat(5, 2))
      [] name = "champion pool" -> Gt(playStyle.versatility, Num(70))
      [] name = "main champion" ->
             /\ playStyle.mostPlayedChampion /= Null
             /\ Gt(playStyle.mostPlayedChampion.winRate, Num(70))
      [] OTHER -> Gt(RankWinRate(rank), Num(60))

\* The improvement templates in the order their predicates are tested.
C23_ImprovementOrder ==
    <<"survival", "farming", "vision", "consistency", "objectives", "damage",
      "champion pool", "main champion", "ranked win rate">>

\* The predicate of an improvement template.
C23_ImprovementHolds(name, metrics, playStyle, rank) ==
    CASE name = "survival" -> Lt(metrics.avgKDA, Rat(9, 5))
      [] name = "farming" -> Lt(metrics.avgCSPerMinute, Rat(11, 2))
      [] name = "vision" -> Lt(metrics.avgVisionScorePerMinute, Rat(3, 2))
      [] name = "consistency" -> Lt(metrics.consistency, Num(60))
      [] name = "objectives" -> Lt(metrics.objectiveParticipation, Rat(3, 2))
      [] name = "damage" -> Lt(metrics.avgDamagePerMinute, Num(400))
      [] name = "champion pool" -> Lt(playStyle.versatility, Num(40))
      [] name = "main champion" -> Lt(playStyle.specialization, Num(30))
      [] OTHER -> Lt(RankWinRate(rank), Num(55))

\* The first four of the satisfied templates, or the fallback alone.
C23_FirstFourOr(satisfied, fallback) ==
    IF satisfied = <<>> THEN <<fallback>>
    ELSE SubSeq(satisfied, 1, IF Len(satisfied) < 4 THEN Len(satisfied) ELSE 4)

C23_Strengths(metrics, playStyle, rank) ==
    LET holds(name) == C23_StrengthHolds(name, metrics, playStyle, rank)
    IN  C23_FirstFourOr(SelectSeq(C23_StrengthOrder, holds), "passion")

C23_Improvements(metrics, playStyle, rank) ==
    LET holds(name) == C23_ImprovementHolds(name, metrics, playStyle, rank)
    IN  C23_FirstFourOr(SelectSeq(C23_ImprovementOrder, holds),
                        "keep practising")

\* An analysis with a rank entry has been returned.
RankedAnalysisReturned == pc = "done" /\ rankData /= Null

\* The lists of the returned analysis are the expected ones.
C23_ListsAsExpected(result, metrics, playStyle, rank) ==
    /\ result.strengths = C23_Strengths(metrics, playStyle, rank)
    /\ result.improvements = C23_Improvements(metrics, playStyle, rank)

\* C23: in the analysis with a rank entry the strengths are the first four,
\* in the order of the tests, of the templates whose predicate holds, and the
\* fallback alone when none holds; likewise the improvements.
C23_ListsAreFirstFourSatisfied ==
    RankedAnalysisReturned =>
        C23_ListsAsExpected(analysis, performanceMetrics,
                            analyzePlayStyle(recentMatches, summonerPuuid),
                            rankData)

\* An analysis whose strengths were cut to four and whose improvements are
\* the fallback alone.
C23_Witness ==
    /\ RankedAnalysisReturned
    /\ Len(AdvancedStrengthCandidates(performanceMetrics,
                                      analyzePlayStyle(recentMatches,
                                                       summonerPuuid),
                                      rankData)) > 4
    /\ Len(analysis.strengths) = 4
    /\ analysis.improvements = <<"keep practising">>

\* The lower end of the bucket a score falls in, the buckets starting at the
\* given floors (in descending order) and at 0.
C24_Floor(score, floors) ==
    LET reached == {i \in 1..Len(floors) : score >= floors[i]}
    IN  IF reached = {} THEN 0
        ELSE floors[CHOOSE i \in reached : \A j \in reached : i <= j]

\* The templates of the ranked text by bucket.
C24_RankedTemplates(floor) ==
    CASE floor = 85 -> {"carry", "strategist", "all-round"}
      [] floor = 70 -> {"reliable", "versatile", "growing"}
      [] floor = 55 -> {"farmer", "teamfighter", "developing"}
      [] floor = 40 -> {"challenger"}
      [] OTHER -> {"learner"}

\* The template of the match-only text by bucket.
C24_MatchOnlyTemplate(floor) ==
    CASE floor = 80 -> "top performer"
      [] floor = 65 -> "steady performer"
      [] floor = 50 -> "average performer"
      [] OTHER -> "needs practice"

IsCall(entry) == entry.event \in {"sent", "settled"}

IsRouteHistory(entry) ==
    entry.request.endpoint = "match-ids" /\ entry.request.arg[2] = 20

\* The step of POST the k-th recorded call belongs to: 1 the account lookup,
\* 2 fetchSummonerByPuuid (the first summoner request and its end),
\* 3 fetchRankData, 4 fetchMatchHistory(puuid, 20),
\* 5 fetchMultipleMatchDetails.
C25_Step(calls, k) ==
    LET endpoint == calls[k].request.endpoint
    IN  CASE endpoint \in {"account", "summoner-by-name"} -> 1
          [] endpoint = "summoner" ->
                 IF \E j \in 1..(k - 1) :
                        /\ calls[j].request.endpoint = "summoner"
                        /\ calls[j].event = calls[k].event
                 THEN 3 ELSE 2
          [] endpoint = "league" -> 3
          [] endpoint = "match-ids" -> IF IsRouteHistory(calls[k]) THEN 4 ELSE 3
          [] OTHER ->
                 IF \E j \in 1..(k - 1) : IsRouteHistory(calls[j])
                 THEN 5 ELSE 3

\* The recorded calls are made one at a time and step by step, and a failure
\* of step 1, 2 or 4 is the last call.
C25_Ordered(calls) ==
    \A k \in 1..Len(calls) :
        /\ calls[k].event = "sent" =>
               IF k = Len(calls) THEN inflight = <<calls[k].request>>
               ELSE /\ calls[k + 1].event = "settled"
                    /\ calls[k + 1].request = calls[k].request
        /\ k < Len(calls) => C25_Step(calls, k) <= C25_Step(calls, k + 1)
        /\ (/\ calls[k].event = "settled"
            /\ calls[k].outcome = "failed"
            /\ C25_Step(calls, k) \in {1, 2, 4})
               => /\ k = Len(calls)
                  /\ \A r \in 1..Len(call.responses) :
                         call.responses[r].status /= 200

\* C25: POST issues its upstream calls one after another in the order
\* account lookup, summoner lookup, rank lookup, match-id list, match
\* details, and answers with the analysis last; a request that fails the
\* validation issues none; and after a failed account lookup, summoner lookup
\* or match-id list no call is issued and no analysis is sent.
C25_CallsInOrder ==
    call.entry = "POST" =>
        /\ Len(inflight) <= 1
        /\ C25_Ordered(SelectSeq(log, IsCall))
        /\ (\E i \in 1..Len(log) : IsCall(log[i])) =>
               /\ ~C11_NoInput
               /\ log[1] = Timer(1000)
        /\ (Responded /\ call.responses[1].status = 200) =>
               /\ inflight = <<>>
               /\ RouteHistoryOk
               /\ LogHas("summoner", "ok")

\* The steps the recorded calls belong to.
C25_StepsOf(calls) == {C25_Step(calls, k) : k \in 1..Len(calls)}

\* A request answered with the analysis after calls of all five steps.
C25_Witness ==
    /\ Responded
    /\ call.responses[1].status = 200
    /\ C25_StepsOf(SelectSeq(log, IsCall)) = 1..5

\* ------------------------------------------------ claims about the estimate

\* The place of a (tier, division) pair in the order IRON IV < IRON III <
\* ... < DIAMOND I.
C26_Place(tier, division) ==
    4 * (CASE tier = "IRON" -> 0 [] tier = "BRONZE" -> 1
           [] tier = "SILVER" -> 2 [] tier = "GOLD" -> 3
           [] tier = "PLATINUM" -> 4 [] OTHER -> 5)
    + (CASE division = "IV" -> 0 [] division = "III" -> 1
         [] division = "II" -> 2 [] OTHER -> 3)

\* C26: the estimate is well-formed and monotone. The rank score lies in
\* 0..100, the tier is one of IRON..DIAMOND, the league points lie in 0..100,
\* and no lower rank score gets a higher (tier, division) pair.
C26_EstimateWellFormedAndMonotone ==
    Computed("matches") =>
        /\ computed.rankScore \in 0..100
        /\ computed.entry.tier
               \in {"IRON", "BRONZE", "SILVER", "GOLD", "PLATINUM", "DIAMOND"}
        /\ computed.entry.rank \in {"IV", "III", "II", "I"}
        /\ computed.entry.leaguePoints \in 0..100
        /\ \A lower \in 0..computed.rankScore :
               C26_Place(EstimatedTier(lower), EstimatedRank(lower))
                   <= C26_Place(computed.entry.tier, computed.entry.rank)

\* The estimate of a player with the top rank score.
C26_Witness ==
    /\ Computed("matches")
    /\ computed.rankScore = 100
    /\ computed.entry.tier = "DIAMOND"
    /\ computed.entry.rank = "III"

\* C27: the wins and losses of an estimated entry are round(winRate / 10)
\* and round((100 - winRate) / 10) of the observed win rate, 0% and 100%
\* included, and their sum is positive.
C27_WinsAndLossesReflectWinRate ==
    Computed("matches") =>
        /\ Num(computed.entry.wins)
               = MathRound(Div(computed.avgStats.winRate, Num(10)))
        /\ Num(computed.entry.losses)
               = MathRound(Div(Sub(Num(100), computed.avgStats.winRate),
                               Num(10)))
        /\ computed.entry.wins + computed.entry.losses > 0

\* C28: the winRate of every analysis POST answers with is a whole number in
\* 0..100.
C28_WinRateIsWholePercentage ==
    (Responded /\ call.responses[1].status = 200) =>
        LET winRate == call.responses[1].body.data.winRate
        IN  /\ IsInteger(winRate)
            /\ Ge(winRate, Num(0))
            /\ Le(winRate, Num(100))

\* ------------------------------------------------- claims about the scorers

\* The base scores the table is said to hold, in the order of TierOrder.
C29_Table == <<15, 25, 35, 45, 60, 75, 85, 90, 95>>

\* The place of a tier in TierOrder, 0 for a tier outside it.
C29_PlaceOf(tier) ==
    IF \E i \in 1..Len(TierOrder) : TierOrder[i] = tier
    THEN CHOOSE i \in 1..Len(TierOrder) : TierOrder[i] = tier
    ELSE 0

\* C29: the base score of a tier of the table is the table's value, above
\* the base score of every lower tier, and a tier outside the table gets 30.
C29_TierBaseIncreasing ==
    Computed("scores") =>
        LET place == C29_PlaceOf(sample.tier)
        IN  IF place = 0 THEN computed.baseScore = 30
            ELSE /\ computed.baseScore = C29_Table[place]
                 /\ \A lower \in 1..(place - 1) :
                        TierBaseScore(TierOrder[lower]) < computed.baseScore

\* The base score of an unranked player with the top metrics.
C29_Witness ==
    /\ Computed("scores")
    /\ sample.tier = "UNRANKED"
    /\ computed.baseScore = 30
    /\ sample.avgKDA = Num(10)

\* C30: the match-only sum of base and bonuses is a multiple of 5 in 50..125,
\* so the clamp binds only from above, the score is at least 50 and the text
\* for scores below 50 is never written; the weighted sum of the ranked
\* scorer lies in [4.5, 98.5], so its clamp never binds.
C30_ClampsBindOnlyFromAbove ==
    Computed("scores") =>
        /\ computed.matchOnlySum \in 50..125
        /\ computed.matchOnlySum % 5 = 0
        /\ computed.matchOnlyScore
               = Num(IF computed.matchOnlySum > 100 THEN 100
                     ELSE computed.matchOnlySum)
        /\ computed.matchOnlyText.template /= "needs practice"
        /\ Ge(computed.weightedSum, Rat(9, 2))
        /\ Le(computed.weightedSum, Rat(197, 2))
        /\ computed.potentialScore = MathRound(computed.weightedSum)

\* The scores of the top metrics in the top tier: both sums at their upper
\* ends.
C30_Witness ==
    /\ Computed("scores")
    /\ computed.matchOnlySum = 125
    /\ computed.matchOnlyScore = Num(100)
    /\ computed.weightedSum = Rat(197, 2)

====
